---- MODULE Spec2Model ----
(***************************************************************************)
(* Half-edge control mesh of the Subdiv library (Subdiv::Control::Mesh).   *)
(*                                                                         *)
(* The state is the mesh's arrays (vertices_, halfEdges_, edges_, faces_,  *)
(* the attribute arrays) and the directed-edge map halfEdgeMap_.  Element  *)
(* indices are 0-based as in the source; a TLA+ sequence holds element k   *)
(* at position k+1.  Vertex positions and attribute values do not          *)
(* influence topology and are left out: a vertex record is its outgoing    *)
(* half-edge, an attribute array is its length.                            *)
(*                                                                         *)
(* Indices are unsigned words of IndexBits bits (32 in the source, fewer   *)
(* here so that keys fit the model checker's integers); INVALID_INDEX is   *)
(* the all-ones word and a directed-edge key is (v0 << IndexBits) | v1.    *)
(***************************************************************************)
EXTENDS Integers, Sequences, FiniteSets, TLC

\* ---------------------------------------------------------------- bounds
MaxVerts == 4
MaxFaceLen == 3
MaxCalls == 3
MaxVertsRender == 5
MaxFaceLenRender == 5
MaxCallsRender == 2
NumThreads == 2
MaxErrors == 2
MaxSamples == 2
MaxMs == 2
MaxBytes == 1
MaxAllocs == 1
IndexBits == 5
MaxContents == 2
MaxCallsReport == 2

\* ------------------------------------------------------------- constants
INVALID_INDEX == 2^IndexBits - 1

VARIABLES
    vertices,          \* Seq of [outgoing]
    halfEdges,         \* Seq of [to, next, prev, twin, face, edge]
    edges,             \* Seq of [tag, sharpness]
    faces,             \* Seq of [edge, valence]
    vertexAttributes,  \* length of vertexAttributes_
    faceAttributes,    \* length of faceAttributes_
    halfEdgeMap,       \* function: directed-edge key -> half-edge index
    args,              \* the vertex list of the last addFace call
    result,            \* [op, ret, codes, ok] of the last call: the index or
                       \* flag it returned and the error codes it reported
    oob,               \* out-of-bounds accesses made by the last call
    crashed,           \* the process was terminated by an out-of-bounds access
    calls,             \* number of addFace calls made so far
    everRejected,      \* some addFace call returned INVALID_INDEX
    cache,             \* the TopologyCache object: its arrays, totals and valid_
    renderMesh,        \* the RenderMesh object: its index buffers and valid_
    sink,              \* the Diagnostics::Context singleton: m_mode, m_mutex (its
                       \* owner, 0 when free), m_errors, m_timings, m_activeTimers,
                       \* m_memoryTracking
    threads            \* per thread: whether it is outside every Context call,
                       \* using a reference a call returned, or stuck in a call

mesh == <<vertices, halfEdges, edges, faces, vertexAttributes, faceAttributes, halfEdgeMap>>
vars == <<vertices, halfEdges, edges, faces, vertexAttributes, faceAttributes, halfEdgeMap,
          args, result, oob, crashed, calls, everRejected, cache, renderMesh,
          sink, threads>>

\* the objects beside the mesh and its cache, which no Mesh or TopologyCache
\* operation touches
others == <<renderMesh, sink, threads>>

\* ------------------------------------------------------------- helpers
\* element k of a 0-based array
At(arr, k) == arr[k + 1]

\* indices 0 .. size-1 of an array
Indices(arr) == 0 .. (Len(arr) - 1)

makeDirectedEdgeKey(v0, v1) == v0 * (2^IndexBits) + v1

Vertex == [outgoing |-> INVALID_INDEX]

HalfEdge == [to |-> INVALID_INDEX, next |-> INVALID_INDEX, prev |-> INVALID_INDEX,
             twin |-> INVALID_INDEX, face |-> INVALID_INDEX, edge |-> INVALID_INDEX]

Edge == [tag |-> "EDGE_SMOOTH", sharpness |-> 0]

\* arr with element k replaced
SetAt(arr, k, val) == [arr EXCEPT ![k + 1] = val]

\* map[key] = val (insert or overwrite)
MapPut(map, key, val) == [k \in (DOMAIN map) \cup {key} |-> IF k = key THEN val ELSE map[k]]

\* The run is followed as long as its behaviour is defined: a call that
\* indexed an array out of bounds ends it, whether the process survived the
\* access (oob says what it touched, the call's effects are in the state) or
\* was terminated by it (crashed; the state is the one before the call).
Defined == oob = {} /\ ~crashed

\* TopologyCache::clear, mesh_cache.cpp 324-345: the cache object after clear()
\* (and after default construction, mesh_cache.hpp 155-189)
ClearedCache ==
    [valences_ |-> << >>, boundaryFlags_ |-> << >>,
     oneRings_ |-> << >>, oneRingOffsets_ |-> << >>,
     vertexFaces_ |-> << >>, vertexFaceOffsets_ |-> << >>,
     edgeVertices_ |-> << >>, edgeBoundaryFlags_ |-> << >>,
     edgeFaces_ |-> << >>, edgeFaceOffsets_ |-> << >>,
     faceVertices_ |-> << >>, faceVertexOffsets_ |-> << >>,
     faceEdges_ |-> << >>, faceEdgeOffsets_ |-> << >>,
     numBoundaryVertices_ |-> 0, numBoundaryEdges_ |-> 0,
     valid_ |-> FALSE]

\* RenderMesh::clear, render_mesh.cpp 19-24: the object after clear() (and after
\* construction, render_mesh.hpp)
ClearedRender == [triangleIndices_ |-> << >>, wireframeIndices_ |-> << >>, valid_ |-> FALSE]

\* the threads that call into the diagnostics sink
Threads == 1..NumThreads

\* Context::Context, context.hpp 210-228: m_mode = DISABLED, the mutex free, the
\* containers empty
NewContext ==
    [m_mode |-> "DISABLED", m_mutex |-> 0, m_errors |-> << >>,
     m_timings |-> << >>, m_activeTimers |-> {}, m_memoryTracking |-> << >>]

\* a thread outside every Context call
Idle == [pc |-> "idle", op |-> "none"]

Init ==
    /\ vertices = << >>
    /\ halfEdges = << >>
    /\ edges = << >>
    /\ faces = << >>
    /\ vertexAttributes = 0
    /\ faceAttributes = 0
    /\ halfEdgeMap = << >>
    /\ args = << >>
    /\ result = [op |-> "none", ret |-> INVALID_INDEX, codes |-> {}, ok |-> TRUE]
    /\ oob = {}
    /\ crashed = FALSE
    /\ calls = 0
    /\ everRejected = FALSE
    /\ cache = ClearedCache
    /\ renderMesh = ClearedRender
    /\ sink = NewContext
    /\ threads = [t \in Threads |-> Idle]

\* Mesh::addVertex
addVertex ==
    /\ Defined
    /\ Len(vertices) < MaxVerts
    /\ vertices' = Append(vertices, Vertex)
    /\ vertexAttributes' = vertexAttributes + 1
    /\ result' = [op |-> "addVertex", ret |-> Len(vertices), codes |-> {}, ok |-> TRUE]
    /\ UNCHANGED <<halfEdges, edges, faces, faceAttributes, halfEdgeMap, args, oob, crashed,
                   calls, everRejected, cache>>
    /\ UNCHANGED others

\* ---------------------------------------------------------- Mesh::addFace
\* The working state of one addFace call: the arrays it mutates, the local
\* faceHalfEdges, the out-of-bounds accesses made so far and how the loop
\* ended ("run": still going, "rollback": returned through the rollback
\* branch, "crash": the process was terminated).

\* mesh.cpp 67-74: the new half-edge is appended before anything is checked
PushHalfEdge(st, v1, faceIdx) ==
    [st EXCEPT !.halfEdges = Append(@, [HalfEdge EXCEPT !.to = v1, !.face = faceIdx]),
               !.faceHalfEdges = Append(@, Len(st.halfEdges))]

\* mesh.cpp 76-78: vertices_[v0] is indexed without a bounds check.  For
\* v0 >= vertices_.size() the read is undefined: the process is terminated,
\* or the read yields INVALID_INDEX (and the write goes out of bounds too),
\* or it yields something else.
UpdateOutgoing(st, v0, heIdx) ==
    IF v0 < Len(st.vertices)
    THEN { IF At(st.vertices, v0).outgoing = INVALID_INDEX
           THEN [st EXCEPT !.vertices = SetAt(@, v0, [At(@, v0) EXCEPT !.outgoing = heIdx])]
           ELSE st }
    ELSE { [st EXCEPT !.oob = @ \cup {"vertex read"}, !.status = "crash"],
           [st EXCEPT !.oob = @ \cup {"vertex read"}],
           [st EXCEPT !.oob = @ \cup {"vertex read", "vertex write"}] }

\* Rollback with the slip halfEdges_.resize(heIdx): only the half-edge of the
\* current iteration is removed
RollbackCurrentOnly(st) ==
    [st EXCEPT !.halfEdges = SubSeq(@, 1, Len(@) - 1), !.status = "rollback"]

\* mesh.cpp 91-97: only halfEdges_ is shrunk
Rollback(st) ==
    [st EXCEPT !.halfEdges = SubSeq(@, 1, st.faceHalfEdges[1]), !.status = "rollback"]

\* mesh.cpp 100-105, twinIdx inside halfEdges_
LinkTwins(st, heIdx, twinIdx) ==
    LET h1 == SetAt(st.halfEdges, heIdx, [At(st.halfEdges, heIdx) EXCEPT !.twin = twinIdx])
        h2 == SetAt(h1, twinIdx, [At(h1, twinIdx) EXCEPT !.twin = heIdx])
        h3 == SetAt(h2, heIdx, [At(h2, heIdx) EXCEPT !.edge = At(h2, twinIdx).edge])
        linked == [st EXCEPT !.halfEdges = h3]
    IN  IF At(st.halfEdges, twinIdx).edge = INVALID_INDEX
        THEN \* SUBDIV_ASSERT (config.hpp 29-34): aborts when asserts are compiled in
             { linked, [st EXCEPT !.status = "crash"] }
        ELSE { linked }

\* what a read of halfEdges_[k].edge past the end of the array may yield
StaleEdgeValues(st) == (0 .. Len(st.edges)) \cup {INVALID_INDEX}

\* mesh.cpp 89-105 when the map entry points past the end of halfEdges_ (an
\* entry left behind by a rolled-back call): the read of .twin is undefined;
\* when it yields INVALID_INDEX the write of halfEdges_[twinIdx].twin lands
\* outside the array and the read of .edge yields an arbitrary word.
LinkTwinsOutOfBounds(st, heIdx, twinIdx) ==
    { [st EXCEPT !.oob = @ \cup {"halfedge read"}, !.status = "crash"],
      Rollback([st EXCEPT !.oob = @ \cup {"halfedge read"}]) }
    \cup
    { [st EXCEPT !.oob = @ \cup {"halfedge read", "halfedge write"},
                 !.halfEdges = SetAt(@, heIdx, [At(@, heIdx) EXCEPT !.twin = twinIdx, !.edge = e])]
      : e \in StaleEdgeValues(st) }

\* mesh.cpp 110-118
CreateEdge(st, v0, v1, heIdx) ==
    [st EXCEPT !.edges = Append(@, Edge),
               !.halfEdges = SetAt(@, heIdx, [At(@, heIdx) EXCEPT !.edge = Len(st.edges)]),
               !.halfEdgeMap = MapPut(@, makeDirectedEdgeKey(v0, v1), heIdx)]

\* mesh.cpp 80-119: look the opposite direction up, then link or create
TwinOrEdge(st, v0, v1, heIdx) ==
    LET twinKey == makeDirectedEdgeKey(v1, v0)
    IN  IF st.status # "run" THEN {st}
        ELSE IF twinKey \in DOMAIN st.halfEdgeMap
        THEN LET twinIdx == st.halfEdgeMap[twinKey]
             IN  IF twinIdx >= Len(st.halfEdges)
                 THEN LinkTwinsOutOfBounds(st, heIdx, twinIdx)
                 ELSE IF At(st.halfEdges, twinIdx).twin # INVALID_INDEX
                 THEN {Rollback(st)}
                 ELSE LinkTwins(st, heIdx, twinIdx)
        ELSE {CreateEdge(st, v0, v1, heIdx)}

\* mesh.cpp 62-120: the set of states the loop can end in
RECURSIVE addFaceLoop(_, _, _, _)
addFaceLoop(verts, faceIdx, i, st) ==
    IF st.status # "run" \/ i > Len(verts) THEN {st}
    ELSE LET v0 == verts[i]
             v1 == verts[(i % Len(verts)) + 1]
             heIdx == Len(st.halfEdges)
             s1 == PushHalfEdge(st, v1, faceIdx)
         IN  UNION { UNION { addFaceLoop(verts, faceIdx, i + 1, s3)
                             : s3 \in TwinOrEdge(s2, v0, v1, heIdx) }
                     : s2 \in UpdateOutgoing(s1, v0, heIdx) }

\* LinkLoop with the slip prev = faceHalfEdges[(i + size - 2) % size]
LinkLoopPrevOffByOne(hes, faceHalfEdges) ==
    LET n == Len(faceHalfEdges)
        pos(h) == CHOOSE i \in 1..n : faceHalfEdges[i] = h
    IN  [k \in 1..Len(hes) |->
            IF (k - 1) \in {faceHalfEdges[i] : i \in 1..n}
            THEN [hes[k] EXCEPT !.next = faceHalfEdges[(pos(k - 1) % n) + 1],
                                !.prev = faceHalfEdges[((pos(k - 1) + n - 3) % n) + 1]]
            ELSE hes[k]]

\* mesh.cpp 122-130
LinkLoop(hes, faceHalfEdges) ==
    LET n == Len(faceHalfEdges)
        pos(h) == CHOOSE i \in 1..n : faceHalfEdges[i] = h
    IN  [k \in 1..Len(hes) |->
            IF (k - 1) \in {faceHalfEdges[i] : i \in 1..n}
            THEN [hes[k] EXCEPT !.next = faceHalfEdges[(pos(k - 1) % n) + 1],
                                !.prev = faceHalfEdges[((pos(k - 1) + n - 2) % n) + 1]]
            ELSE hes[k]]

\* a check that compares only neighbouring positions
HasDuplicateVertexAdjacent(verts) ==
    \E i \in 1..(Len(verts) - 1) : verts[i] = verts[i + 1]

\* mesh.cpp 37-49
HasDuplicateVertex(verts) ==
    \E i \in 1..Len(verts) : \E j \in (i + 1)..Len(verts) : verts[i] = verts[j]

\* mesh.cpp 24-29: returnError
returnError(code) ==
    /\ result' = [op |-> "addFace", ret |-> INVALID_INDEX, codes |-> {code}, ok |-> TRUE]
    /\ everRejected' = TRUE

\* mesh.cpp 122-139 for a loop that ran to its end, 91-97 for one that
\* rolled back; nothing of the call is left when the process was terminated
addFaceEnd(verts, faceIdx, st) ==
    /\ oob' = st.oob
    /\ crashed' = (st.status = "crash")
    /\ \/ /\ st.status = "run"
          /\ vertices' = st.vertices
          /\ edges' = st.edges
          /\ halfEdgeMap' = st.halfEdgeMap
          /\ halfEdges' = LinkLoop(st.halfEdges, st.faceHalfEdges)
          /\ faces' = Append(faces, [edge |-> st.faceHalfEdges[1], valence |-> Len(verts)])
          /\ faceAttributes' = faceAttributes + 1
          /\ result' = [op |-> "addFace", ret |-> faceIdx, codes |-> {}, ok |-> TRUE]
          /\ UNCHANGED everRejected
       \/ /\ st.status = "rollback"
          /\ vertices' = st.vertices
          /\ edges' = st.edges
          /\ halfEdgeMap' = st.halfEdgeMap
          /\ halfEdges' = st.halfEdges
          /\ UNCHANGED <<faces, faceAttributes>>
          /\ returnError("NON_MANIFOLD_EDGE")
       \/ /\ st.status = "crash"
          /\ UNCHANGED <<vertices, halfEdges, edges, faces, faceAttributes, halfEdgeMap,
                         result, everRejected>>

\* Mesh::addFace, mesh.cpp 20-140
addFace(verts) ==
    /\ Defined
    /\ calls' = calls + 1
    /\ args' = verts
    /\ UNCHANGED <<vertexAttributes, cache>>
    /\ UNCHANGED others
    /\ IF Len(verts) < 3
       THEN /\ returnError("FACE_TOO_FEW_VERTICES")
            /\ UNCHANGED <<vertices, halfEdges, edges, faces, faceAttributes, halfEdgeMap,
                           oob, crashed>>
       ELSE IF HasDuplicateVertex(verts)
       THEN /\ returnError("DUPLICATE_VERTEX_IN_FACE")
            /\ UNCHANGED <<vertices, halfEdges, edges, faces, faceAttributes, halfEdgeMap,
                           oob, crashed>>
       ELSE LET faceIdx == Len(faces)
                st0 == [vertices |-> vertices, halfEdges |-> halfEdges, edges |-> edges,
                        halfEdgeMap |-> halfEdgeMap, faceHalfEdges |-> << >>,
                        oob |-> {}, status |-> "run"]
            IN  \E st \in addFaceLoop(verts, faceIdx, 1, st0) : addFaceEnd(verts, faceIdx, st)

\* Mesh::getFromVertex, mesh.cpp 142-152
getFromVertex(heIdx) ==
    IF At(halfEdges, heIdx).prev = INVALID_INDEX
    THEN INVALID_INDEX
    ELSE At(halfEdges, At(halfEdges, heIdx).prev).to

\* Mesh::findHalfEdge, mesh.cpp 237-246: the map entry of the key (v0,v1) or
\* INVALID_INDEX; the opposite key is never looked at
findHalfEdge(v0, v1) ==
    LET key == makeDirectedEdgeKey(v0, v1)
    IN  IF key \in DOMAIN halfEdgeMap THEN halfEdgeMap[key] ELSE INVALID_INDEX

\* mesh.cpp 176-189: the walk backwards from v.outgoing after a half-edge
\* without twin was met; it stops before counting the last boundary edge
RECURSIVE valenceBackward(_, _)
valenceBackward(current, valence) ==
    LET prev == At(halfEdges, current).prev
    IN  IF prev = INVALID_INDEX THEN valence
        ELSE LET prevTwin == At(halfEdges, prev).twin
             IN  IF prevTwin = INVALID_INDEX THEN valence
                 ELSE valenceBackward(prevTwin, valence + 1)

\* mesh.cpp 166-199: the do-while over the outgoing half-edges of vertex vIdx
RECURSIVE valenceForward(_, _, _, _)
valenceForward(vIdx, start, current, valence) ==
    LET counted == valence + 1
        twin == At(halfEdges, current).twin
    IN  IF twin = INVALID_INDEX
        THEN valenceBackward(At(vertices, vIdx).outgoing, counted)
        ELSE LET nxt == At(halfEdges, twin).next
             IN  IF counted > 1000 THEN -1
                 ELSE IF nxt # start /\ nxt # INVALID_INDEX
                 THEN valenceForward(vIdx, start, nxt, counted)
                 ELSE counted

\* Mesh::getVertexValence, mesh.cpp 154-202
getVertexValence(vIdx) ==
    IF At(vertices, vIdx).outgoing = INVALID_INDEX THEN 0
    ELSE valenceForward(vIdx, At(vertices, vIdx).outgoing, At(vertices, vIdx).outgoing, 0)

\* ---------------------------------------------------- TopologyCache::build
\* is the index inside an array of len elements
isValidIndex(i, len) == i # INVALID_INDEX /\ i < len

\* mesh_cache.cpp 40-48: the endpoints of half-edge h in canonical order
CanonicalEndpoints(h) ==
    LET v0 == getFromVertex(h)
        v1 == At(halfEdges, h).to
    IN  IF v0 > v1 THEN <<v1, v0>> ELSE <<v0, v1>>

\* mesh_cache.cpp 33-57: the pass over the half-edges from h on; ev, flags and
\* counts are edgeVertices_, edgeBoundaryFlags_ and edgeFaceCounts so far
RECURSIVE edgeScan(_, _, _, _)
edgeScan(h, ev, flags, counts) ==
    IF h >= Len(halfEdges)
    THEN [edgeVertices_ |-> ev, edgeBoundaryFlags_ |-> flags, edgeFaceCounts |-> counts]
    ELSE LET he == At(halfEdges, h)
         IN  IF he.edge = INVALID_INDEX \/ he.edge >= Len(edges)
             THEN edgeScan(h + 1, ev, flags, counts)
             ELSE edgeScan(h + 1,
                           IF At(ev, he.edge)[1] = INVALID_INDEX
                           THEN SetAt(ev, he.edge, CanonicalEndpoints(h)) ELSE ev,
                           IF he.twin # INVALID_INDEX THEN SetAt(flags, he.edge, 0) ELSE flags,
                           IF he.face # INVALID_INDEX
                           THEN SetAt(counts, he.edge, At(counts, he.edge) + 1) ELSE counts)

\* mesh_cache.cpp 24-57: phase 1
EdgeData ==
    edgeScan(0, [e \in 1..Len(edges) |-> <<INVALID_INDEX, INVALID_INDEX>>],
                [e \in 1..Len(edges) |-> 1],
                [e \in 1..Len(edges) |-> 0])

\* std::vector::resize(n, val) (mesh_cache.cpp 24-26, 72, 83): arr cut to n
\* elements, or extended to n elements with val
resize(arr, n, val) == [k \in 1..n |-> IF k <= Len(arr) THEN arr[k] ELSE val]

\* a build() that goes on with the arrays of the last build
buildKeepsArrays == cache

\* mesh_cache.cpp 14: build() starts with clear(), mesh_cache.cpp 324-345
buildClear == ClearedCache

\* mesh_cache.cpp 72-79: phase 2, valences_ resized with zeros and then one
\* increment per stored endpoint of every edge
Valences(ev) ==
    [k \in 1..Len(vertices) |->
        resize(buildClear.valences_, Len(vertices), 0)[k]
      + Cardinality({e \in 1..Len(ev) : isValidIndex(ev[e][1], Len(vertices)) /\ ev[e][1] = k - 1})
      + Cardinality({e \in 1..Len(ev) : isValidIndex(ev[e][2], Len(vertices)) /\ ev[e][2] = k - 1})]

\* mesh_cache.cpp 83-94: phase 3, the endpoints of the boundary edges
BoundaryFlags(ev, flags) ==
    [k \in 1..Len(vertices) |->
        IF \E e \in 1..Len(ev) : flags[e] # 0 /\ (ev[e][1] = k - 1 \/ ev[e][2] = k - 1)
        THEN 1 ELSE 0]

\* mesh_cache.cpp 135-138: the one-ring offsets, a prefix sum of the valences
RECURSIVE PrefixSums(_, _)
PrefixSums(counts, k) ==
    IF k = 0 THEN <<0>>
    ELSE LET before == PrefixSums(counts, k - 1)
         IN  Append(before, before[k] + counts[k])

\* the number of entries of arr equal to 1 (std::count, mesh_cache.cpp 68, 96)
CountOnes(arr) == Cardinality({k \in 1..Len(arr) : arr[k] = 1})

\* The state of one vertex's one-ring walk: the neighbours handed to the
\* write (written), visitedHalfEdges (visited), whether the forward walk met a
\* half-edge without twin (hitBoundary), the half-edge it stands on (current)
\* and whether it was about to index halfEdges or visitedHalfEdges past
\* their end (oob).

\* mesh_cache.cpp 216-237: the walk backwards, which starts from the half-edge
\* the forward walk stopped on
RECURSIVE ringBackward(_)
ringBackward(w) ==
    LET prev == At(halfEdges, w.current).prev
    IN  IF ~isValidIndex(prev, Len(halfEdges)) THEN w
        ELSE LET prevTwin == At(halfEdges, prev).twin
             IN  IF prevTwin = INVALID_INDEX
                 THEN [w EXCEPT !.written = Append(@, getFromVertex(prev))]
                 ELSE IF prevTwin >= Len(halfEdges) THEN [w EXCEPT !.oob = TRUE]
                 ELSE IF prevTwin \in w.visited THEN w
                 ELSE ringBackward([w EXCEPT !.visited = @ \cup {prevTwin},
                                             !.written = Append(@, At(halfEdges, prevTwin).to),
                                             !.current = prevTwin])

\* mesh_cache.cpp 193-211: the walk along next[twin[h]] from vert.outgoing
RECURSIVE ringForward(_, _)
ringForward(start, w) ==
    IF w.current >= Len(halfEdges) THEN [w EXCEPT !.oob = TRUE]
    ELSE IF w.current \in w.visited THEN w
    ELSE LET twin == At(halfEdges, w.current).twin
             w1 == [w EXCEPT !.visited = @ \cup {w.current},
                             !.written = Append(@, At(halfEdges, w.current).to)]
         IN  IF twin = INVALID_INDEX THEN [w1 EXCEPT !.hitBoundary = TRUE]
             ELSE IF twin >= Len(halfEdges) THEN [w1 EXCEPT !.oob = TRUE]
             ELSE LET nxt == At(halfEdges, twin).next
                  IN  IF nxt # start THEN ringForward(start, [w1 EXCEPT !.current = nxt])
                      ELSE [w1 EXCEPT !.current = nxt]

\* mesh_cache.cpp 184-238: the walk of vertex v
ringWalk(v) ==
    LET start == At(vertices, v).outgoing
        fwd == ringForward(start, [written |-> << >>, visited |-> {}, hitBoundary |-> FALSE,
                                   current |-> start, oob |-> FALSE])
    IN  IF fwd.hitBoundary /\ ~fwd.oob THEN ringBackward(fwd) ELSE fwd

\* mesh_cache.cpp 176-238: the slots oneRings_[offsets[v] .. offsets[v+1]) of
\* vertex v; a write happens only while the write position is below
\* offsets[v+1], and a slot that was never written keeps the 0 of resize()
ringSlots(v, valence) ==
    IF At(vertices, v).outgoing = INVALID_INDEX THEN [k \in 1..valence |-> 0]
    ELSE LET written == ringWalk(v).written
         IN  [k \in 1..valence |-> IF k <= Len(written) THEN written[k] ELSE 0]

\* phase 7 for the vertices from v on, appended to the flat array rings
RECURSIVE fillOneRings(_, _, _)
fillOneRings(v, valences, rings) ==
    IF v >= Len(vertices) THEN rings
    ELSE fillOneRings(v + 1, valences, rings \o ringSlots(v, At(valences, v)))

\* mesh_cache.cpp 113-129 and 269-302: the half-edges the do-while over a
\* face loop visits from start, in order; it ends on a half-edge seen before,
\* on the return to start and on a next field that is no half-edge
RECURSIVE faceWalk(_, _, _)
faceWalk(start, current, visited) ==
    IF \E k \in 1..Len(visited) : visited[k] = current THEN visited
    ELSE LET nxt == At(halfEdges, current).next
         IN  IF nxt # start /\ isValidIndex(nxt, Len(halfEdges))
             THEN faceWalk(start, nxt, Append(visited, current))
             ELSE Append(visited, current)

\* the walk of face f (phase 8 skips a face whose edge is no half-edge,
\* mesh_cache.cpp 257-258)
faceLoopWalk(f) ==
    LET start == At(faces, f).edge
    IN  IF ~isValidIndex(start, Len(halfEdges)) THEN << >>
        ELSE faceWalk(start, start, << >>)

\* mesh_cache.cpp 107-115: phase 4 skips a face only when its edge is
\* INVALID_INDEX, and reads visited[start] past the end for any other edge
\* that is no half-edge
FaceWalkOutOfBounds ==
    \E f \in Indices(faces) :
        At(faces, f).edge # INVALID_INDEX /\ At(faces, f).edge >= Len(halfEdges)

\* faceEvents recording the vertex a half-edge points to in place of the one
\* it leaves
faceEventsTo(f) ==
    LET walk == faceLoopWalk(f)
    IN  [i \in 1..Len(walk) |->
            [face |-> f, from |-> At(halfEdges, walk[i]).to, edge |-> At(halfEdges, walk[i]).edge]]

\* mesh_cache.cpp 121-127 and 272-300: what one face walk meets, in order: per
\* half-edge the face, the from-vertex and the edge
faceEvents(f) ==
    LET walk == faceLoopWalk(f)
    IN  [i \in 1..Len(walk) |->
            [face |-> f, from |-> getFromVertex(walk[i]), edge |-> At(halfEdges, walk[i]).edge]]

\* mesh_cache.cpp 103-130 and 253-303: the walks of faces 0 .. n-1 one after
\* the other, the order in which phases 4 and 8 go through the half-edges
RECURSIVE allFaceEvents(_)
allFaceEvents(n) ==
    IF n = 0 THEN << >> ELSE allFaceEvents(n - 1) \o faceEvents(n - 1)

\* mesh_cache.cpp 100-130: phase 4, vertexFaceCounts: one count per visited
\* half-edge whose from-vertex is a vertex
VertexFaceCounts ==
    LET events == allFaceEvents(Len(faces))
    IN  [k \in 1..Len(vertices) |->
            Cardinality({i \in 1..Len(events) :
                isValidIndex(events[i].from, Len(vertices)) /\ events[i].from = k - 1})]

\* The n slots of one element in a value array.  Every write is guarded by
\* "write position < next offset" (mesh_cache.cpp 280, 284, 292, 296), so that
\* the first n entries handed to it are stored, and a slot that is never
\* written keeps the 0 of resize() (mesh_cache.cpp 165-169).
Slots(entries, n) == [k \in 1..n |-> IF k <= Len(entries) THEN entries[k] ELSE 0]

\* the slots of elements 0 .. n-1 laid out one after the other
RECURSIVE Flatten(_, _)
Flatten(slots, n) == IF n = 0 THEN << >> ELSE Flatten(slots, n - 1) \o slots[n]

\* mesh_cache.cpp 140-169 and 250-303: the offset arrays of phase 5 and the
\* value arrays as phase 8 leaves them
FaceData(edgeFaceCounts) ==
    LET faceValences == [k \in 1..Len(faces) |-> faces[k].valence]
        vertexFaceCounts == VertexFaceCounts
        events == allFaceEvents(Len(faces))
        FromIs(v, ev) == isValidIndex(ev.from, Len(vertices)) /\ ev.from = v
        EdgeIs(e, ev) == isValidIndex(ev.edge, Len(edges)) /\ ev.edge = e
        OfFace(f, ev) == ev.face = f
        Pick(field, evs) == [i \in 1..Len(evs) |-> evs[i][field]]
        vertexSlots == [k \in 1..Len(vertices) |->
            LET Mine(ev) == FromIs(k - 1, ev)
            IN  Slots(Pick("face", SelectSeq(events, Mine)), vertexFaceCounts[k])]
        edgeSlots == [k \in 1..Len(edges) |->
            LET Mine(ev) == EdgeIs(k - 1, ev)
            IN  Slots(Pick("face", SelectSeq(events, Mine)), edgeFaceCounts[k])]
        faceVertexSlots == [k \in 1..Len(faces) |->
            LET Mine(ev) == OfFace(k - 1, ev) /\ isValidIndex(ev.from, Len(vertices))
            IN  Slots(Pick("from", SelectSeq(events, Mine)), faceValences[k])]
        faceEdgeSlots == [k \in 1..Len(faces) |->
            LET Mine(ev) == OfFace(k - 1, ev) /\ isValidIndex(ev.edge, Len(edges))
            IN  Slots(Pick("edge", SelectSeq(events, Mine)), faceValences[k])]
    IN  [off |-> [vertexFaceOffsets_ |-> PrefixSums(vertexFaceCounts, Len(vertices)),
                  edgeFaceOffsets_ |-> PrefixSums(edgeFaceCounts, Len(edges)),
                  faceVertexOffsets_ |-> PrefixSums(faceValences, Len(faces)),
                  faceEdgeOffsets_ |-> PrefixSums(faceValences, Len(faces))],
         filled |-> [vertexFaces_ |-> Flatten(vertexSlots, Len(vertices)),
                     edgeFaces_ |-> Flatten(edgeSlots, Len(edges)),
                     faceVertices_ |-> Flatten(faceVertexSlots, Len(faces)),
                     faceEdges_ |-> Flatten(faceEdgeSlots, Len(faces))]]

\* some vertex's walk indexes halfEdges or visitedHalfEdges past their end
RingWalkOutOfBounds ==
    \E v \in Indices(vertices) :
        At(vertices, v).outgoing # INVALID_INDEX /\ ringWalk(v).oob

\* build() indexes an array of the mesh or one of its own buffers past the end
BuildOutOfBounds == RingWalkOutOfBounds \/ FaceWalkOutOfBounds

\* mesh_cache.cpp 10-322: the cache build() leaves when it runs to its end
BuiltCache ==
    IF Len(vertices) = 0 THEN buildClear
    ELSE LET ed == EdgeData
             valences == Valences(ed.edgeVertices_)
             boundary == BoundaryFlags(ed.edgeVertices_, ed.edgeBoundaryFlags_)
             fd == FaceData(ed.edgeFaceCounts)
         IN  [valences_ |-> valences,
              boundaryFlags_ |-> boundary,
              oneRings_ |-> fillOneRings(0, valences, << >>),
              oneRingOffsets_ |-> PrefixSums(valences, Len(valences)),
              vertexFaces_ |-> fd.filled.vertexFaces_,
              vertexFaceOffsets_ |-> fd.off.vertexFaceOffsets_,
              edgeVertices_ |-> ed.edgeVertices_,
              edgeBoundaryFlags_ |-> ed.edgeBoundaryFlags_,
              edgeFaces_ |-> fd.filled.edgeFaces_,
              edgeFaceOffsets_ |-> fd.off.edgeFaceOffsets_,
              faceVertices_ |-> fd.filled.faceVertices_,
              faceVertexOffsets_ |-> fd.off.faceVertexOffsets_,
              faceEdges_ |-> fd.filled.faceEdges_,
              faceEdgeOffsets_ |-> fd.off.faceEdgeOffsets_,
              numBoundaryVertices_ |-> CountOnes(boundary),
              numBoundaryEdges_ |-> CountOnes(ed.edgeBoundaryFlags_),
              valid_ |-> TRUE]

\* TopologyCache::build(mesh), mesh_cache.cpp 10-322.  When a walk indexes
\* past the end of halfEdges (a twin or outgoing field left behind by a
\* rolled-back addFace) the behaviour is undefined: the process is
\* terminated, or it goes on with what the stray read yielded; the walk is
\* then followed as cut short at the access.
build ==
    /\ Defined
    /\ \/ /\ ~BuildOutOfBounds
          /\ cache' = BuiltCache
          /\ UNCHANGED <<oob, crashed>>
       \/ /\ BuildOutOfBounds
          /\ \/ /\ cache' = BuiltCache
                /\ oob' = {"halfedge read"}
                /\ UNCHANGED crashed
             \/ /\ crashed' = TRUE
                /\ oob' = {"halfedge read"}
                /\ UNCHANGED cache
    /\ result' = [op |-> "build", ret |-> INVALID_INDEX, codes |-> {}, ok |-> TRUE]
    /\ UNCHANGED <<vertices, halfEdges, edges, faces, vertexAttributes, faceAttributes,
                   halfEdgeMap, args, calls, everRejected>>
    /\ UNCHANGED others

\* TopologyCache::isValid, mesh_cache.hpp 60
isValid == cache.valences_ # << >>

\* TopologyCache::getValence, mesh_cache.hpp 68
getValence(v) == IF v < Len(cache.valences_) THEN At(cache.valences_, v) ELSE 0

\* TopologyCache::isBoundaryVertex, mesh_cache.hpp 73
isBoundaryVertex(v) ==
    IF v < Len(cache.boundaryFlags_) THEN At(cache.boundaryFlags_, v) # 0 ELSE FALSE

\* TopologyCache::isBoundaryEdge, mesh_cache.hpp 98
isBoundaryEdge(e) ==
    IF e < Len(cache.edgeBoundaryFlags_) THEN At(cache.edgeBoundaryFlags_, e) # 0 ELSE FALSE

\* TopologyCache::getEdgeVertices, mesh_cache.hpp 105-110
getEdgeVertices(e) ==
    IF e < Len(cache.edgeVertices_) THEN At(cache.edgeVertices_, e)
    ELSE <<INVALID_INDEX, INVALID_INDEX>>

\* size_t has twice the bits of an index (64 and 32 in the source)
SizeBits == 2 * IndexBits

\* offsets.size() - 1 as the accessors compute it (mesh_cache.cpp 351, 362, 373,
\* 384, 395): unsigned, so that it wraps around to the largest size_t for an
\* empty offset array
sliceBound(offsets) == (Len(offsets) - 1) % (2^SizeBits)

\* mesh_cache.cpp 353-354 (and 364-365, 375-376, 386-387, 397-398): the
\* accessor goes past its guard and reads offsets[i+1] beyond the array's end
sliceOutOfBounds(offsets, i) == i < sliceBound(offsets) /\ i + 1 >= Len(offsets)

\* mesh_cache.cpp 351-355: the span an accessor returns for index i when its
\* reads stay inside the offset array (SUBDIV_ASSERT is compiled out unless
\* SUBDIV_ENABLE_ASSERTS is set, config.hpp 22-34)
slice(values, offsets, i) ==
    IF i >= sliceBound(offsets) THEN << >>
    ELSE SubSeq(values, At(offsets, i) + 1, At(offsets, i + 1))

\* TopologyCache::getVertexOneRing, mesh_cache.cpp 347-356
getVertexOneRing(v) == slice(cache.oneRings_, cache.oneRingOffsets_, v)

\* TopologyCache::getVertexFaces, mesh_cache.cpp 358-367
getVertexFaces(v) == slice(cache.vertexFaces_, cache.vertexFaceOffsets_, v)

\* TopologyCache::getEdgeFaces, mesh_cache.cpp 369-378
getEdgeFaces(e) == slice(cache.edgeFaces_, cache.edgeFaceOffsets_, e)

\* TopologyCache::getFaceVertices, mesh_cache.cpp 380-389
getFaceVertices(f) == slice(cache.faceVertices_, cache.faceVertexOffsets_, f)

\* TopologyCache::getFaceEdges, mesh_cache.cpp 391-400
getFaceEdges(f) == slice(cache.faceEdges_, cache.faceEdgeOffsets_, f)

\* --------------------------------------------------------- Mesh::validate
\* mesh.cpp 276-320: the codes reported for half-edge i
validateHalfEdge(i) ==
    LET he == At(halfEdges, i)
        size == Len(halfEdges)
    IN  IF he.to >= Len(vertices)
        THEN {"INVALID_HALFEDGE_TO"}
        ELSE (IF he.twin = INVALID_INDEX THEN {}
              ELSE IF he.twin >= size THEN {"INVALID_HALFEDGE_TWIN"}
              ELSE IF At(halfEdges, he.twin).twin # i THEN {"BROKEN_TWIN_LINK"}
              ELSE IF he.edge # INVALID_INDEX /\ At(halfEdges, he.twin).edge # he.edge
                   THEN {"TWIN_EDGE_MISMATCH"}
              ELSE {})
        \cup (IF he.next # INVALID_INDEX /\ he.next >= size THEN {"INVALID_HALFEDGE_NEXT"} ELSE {})
        \cup (IF he.prev # INVALID_INDEX /\ he.prev >= size THEN {"INVALID_HALFEDGE_PREV"} ELSE {})
        \cup (IF he.edge # INVALID_INDEX /\ he.edge >= Len(edges)
              THEN {"INVALID_HALFEDGE_EDGE"} ELSE {})
        \cup (IF he.face # INVALID_INDEX /\ he.face >= Len(faces)
              THEN {"INVALID_HALFEDGE_FACE"} ELSE {})
        \cup (IF he.face # INVALID_INDEX /\ (he.next = INVALID_INDEX \/ he.prev = INVALID_INDEX)
              THEN {"INCOMPLETE_FACE_LOOP"} ELSE {})
        \cup (IF he.next # INVALID_INDEX /\ he.next < size /\ At(halfEdges, he.next).prev # i
              THEN {"BROKEN_NEXT_LINK"} ELSE {})
        \cup (IF he.prev # INVALID_INDEX /\ he.prev < size /\ At(halfEdges, he.prev).next # i
              THEN {"BROKEN_PREV_LINK"} ELSE {})

\* mesh.cpp 337-358: the do-while over face i's loop; the steps counted and
\* the codes reported
RECURSIVE validateFaceLoop(_, _, _, _, _)
validateFaceLoop(i, start, current, count, codes) ==
    IF current >= Len(halfEdges)
    THEN [count |-> count, codes |-> codes \cup {"FACE_LOOP_INVALID_INDEX"}]
    ELSE LET c1 == codes \cup (IF At(halfEdges, current).face # i
                               THEN {"FACE_LOOP_WRONG_FACE"} ELSE {})
             nxt == At(halfEdges, current).next
             cnt == count + 1
         IN  IF cnt > At(faces, i).valence + 1
             THEN [count |-> cnt, codes |-> c1 \cup {"FACE_LOOP_TOO_LONG"}]
             ELSE IF nxt # start /\ nxt # INVALID_INDEX
             THEN validateFaceLoop(i, start, nxt, cnt, c1)
             ELSE [count |-> cnt, codes |-> c1]

\* mesh.cpp 323-366: the codes reported for face i
validateFace(i) ==
    LET f == At(faces, i)
    IN  IF f.edge >= Len(halfEdges)
        THEN {"INVALID_FACE_EDGE"}
        ELSE LET walk == validateFaceLoop(i, f.edge, f.edge, 0, {})
             IN  walk.codes \cup (IF walk.count # f.valence
                                  THEN {"FACE_VALENCE_MISMATCH"} ELSE {})

\* mesh.cpp 369-384: the codes reported for edge i
validateEdge(i) ==
    LET heCount == Cardinality({h \in Indices(halfEdges) : At(halfEdges, h).edge = i})
    IN  (IF heCount > 2 THEN {"NON_MANIFOLD_EDGE"} ELSE {})
        \cup (IF heCount = 0 THEN {"ORPHANED_EDGE"} ELSE {})

\* mesh.cpp 263-400: every code validate reports to the sink
validateErrors ==
    UNION {validateHalfEdge(i) : i \in Indices(halfEdges)}
    \cup UNION {validateFace(i) : i \in Indices(faces)}
    \cup UNION {validateEdge(i) : i \in Indices(edges)}
    \cup (IF vertexAttributes # Len(vertices) THEN {"VERTEX_ATTRIB_SIZE_MISMATCH"} ELSE {})
    \cup (IF faceAttributes # Len(faces) THEN {"FACE_ATTRIB_SIZE_MISMATCH"} ELSE {})

\* Mesh::validate, mesh.cpp 263-400: valid stays true exactly when no code is
\* reported
validate ==
    /\ Defined
    /\ result' = [op |-> "validate", ret |-> INVALID_INDEX, codes |-> validateErrors,
                  ok |-> (validateErrors = {})]
    /\ UNCHANGED <<vertices, halfEdges, edges, faces, vertexAttributes, faceAttributes,
                   halfEdgeMap, args, oob, crashed, calls, everRejected, cache>>
    /\ UNCHANGED others

\* the vertex lists addFace is called with
FaceInputs == UNION { [1..n -> 0..MaxVerts] : n \in 0..MaxFaceLen }

AddFace == calls < MaxCalls /\ \E verts \in FaceInputs : addFace(verts)

Next == addVertex \/ AddFace \/ validate

Spec == Init /\ [][Next]_vars

\* One call deeper, with the vertex lists that get past the checks on their own
\* shape (three or more distinct indices of existing vertices): a call can then
\* meet what a rolled-back call before it left in the map and the arrays.
AddFaceDeep ==
    /\ calls < MaxCalls + 1
    /\ \E verts \in FaceInputs :
            /\ Len(verts) >= 3
            /\ ~HasDuplicateVertex(verts)
            /\ \A i \in 1..Len(verts) : verts[i] < Len(vertices)
            /\ addFace(verts)

NextDeep == addVertex \/ AddFaceDeep

SpecDeep == Init /\ [][NextDeep]_vars

\* The mesh with its cache: vertices, faces (vertex lists of three or more
\* distinct existing vertices, written from their smallest index; the other
\* rotations of a list give the same face with its half-edges renumbered) and
\* cache builds at any point in between.
AddFaceCache ==
    /\ calls < MaxCalls + 1
    /\ \E verts \in FaceInputs :
            /\ Len(verts) >= 3
            /\ ~HasDuplicateVertex(verts)
            /\ \A i \in 1..Len(verts) : verts[i] < Len(vertices)
            /\ \A i \in 2..Len(verts) : verts[1] < verts[i]
            /\ addFace(verts)

NextCache == addVertex \/ AddFaceCache \/ build

SpecCache == Init /\ [][NextCache]_vars
\* ------------------------------------------------------ RenderMesh::build
\* render_mesh.cpp 44-55: the do-while that collects the vertices of one face;
\* oob when the loop is left through a next that is neither INVALID_INDEX nor a
\* half-edge (halfEdges[current] is then read past the end)
RECURSIVE collectFaceVerts(_, _, _, _, _)
collectFaceVerts(valence, start, current, count, faceVerts) ==
    LET v == getFromVertex(current)
        pushed == IF v # INVALID_INDEX THEN Append(faceVerts, v) ELSE faceVerts
        nxt == At(halfEdges, current).next
    IN  IF count + 1 > valence + 10 THEN [verts |-> pushed, oob |-> FALSE]
        ELSE IF nxt # start /\ nxt # INVALID_INDEX
             THEN IF nxt < Len(halfEdges)
                  THEN collectFaceVerts(valence, start, nxt, count + 1, pushed)
                  ELSE [verts |-> pushed, oob |-> TRUE]
             ELSE [verts |-> pushed, oob |-> FALSE]

\* render_mesh.cpp 30-55: the faces buildTriangleIndices skips, and the vertices
\* it collects for the others
faceVertsOf(f) ==
    LET face == At(faces, f)
    IN  IF face.valence < 3 \/ face.edge = INVALID_INDEX \/ face.edge >= Len(halfEdges)
        THEN [verts |-> << >>, oob |-> FALSE]
        ELSE collectFaceVerts(face.valence, face.edge, face.edge, 0, << >>)

\* fanTriangles emitting the strip (v0, v1, v2), (v1, v2, v3), ...
fanTrianglesStrip(faceVerts) ==
    IF Len(faceVerts) < 3 THEN << >>
    ELSE [k \in 1..(3 * (Len(faceVerts) - 2)) |->
            LET i == ((k - 1) \div 3) + 1
            IN  CASE (k - 1) % 3 = 0 -> faceVerts[i]
                  [] (k - 1) % 3 = 1 -> faceVerts[i + 1]
                  [] (k - 1) % 3 = 2 -> faceVerts[i + 2]]

\* render_mesh.cpp 57-64: (v0, v1, v2), (v0, v2, v3), ...
fanTriangles(faceVerts) ==
    IF Len(faceVerts) < 3 THEN << >>
    ELSE [k \in 1..(3 * (Len(faceVerts) - 2)) |->
            LET i == ((k - 1) \div 3) + 1
            IN  CASE (k - 1) % 3 = 0 -> faceVerts[1]
                  [] (k - 1) % 3 = 1 -> faceVerts[i + 1]
                  [] (k - 1) % 3 = 2 -> faceVerts[i + 2]]

\* RenderMesh::buildTriangleIndices, render_mesh.cpp 27-67, over faces 0 .. n-1
RECURSIVE buildTriangleIndices(_)
buildTriangleIndices(n) ==
    IF n = 0 THEN << >>
    ELSE buildTriangleIndices(n - 1) \o fanTriangles(faceVertsOf(n - 1).verts)

\* some face walk of buildTriangleIndices reads halfEdges past the end
TriangleWalkOutOfBounds == \E f \in Indices(faces) : faceVertsOf(f).oob

\* RenderMesh::buildWireframeIndices, render_mesh.cpp 76-83, over edges
\* 0 .. n-1 of the cache as it is once line 72-74 has run
RECURSIVE buildWireframeIndices(_)
buildWireframeIndices(n) ==
    IF n = 0 THEN << >>
    ELSE LET ev == getEdgeVertices(n - 1)
         IN  buildWireframeIndices(n - 1) \o
                (IF ev[1] # INVALID_INDEX /\ ev[2] # INVALID_INDEX THEN <<ev[1], ev[2]>> ELSE << >>)

\* render_mesh.cpp 72-74: the cache is built when isValid() is false
RenderBuildsCache == ~isValid

\* RenderMesh::build indexes an array past its end, in its own face walk or in
\* the cache build it runs
RenderOutOfBounds == TriangleWalkOutOfBounds \/ (RenderBuildsCache /\ BuildOutOfBounds)

\* Mesh::buildCache: cache.build(*this)
buildCache == BuiltCache

\* RenderMesh::build, render_mesh.cpp 8-17
renderBuild ==
    /\ Defined
    /\ UNCHANGED <<vertices, halfEdges, edges, faces, vertexAttributes, faceAttributes,
                   halfEdgeMap, args, calls, everRejected>>
    /\ \/ /\ ~RenderOutOfBounds
          /\ cache' = IF RenderBuildsCache THEN buildCache ELSE cache
          /\ renderMesh' = [triangleIndices_ |-> buildTriangleIndices(Len(faces)),
                            wireframeIndices_ |-> buildWireframeIndices(Len(edges))',
                            valid_ |-> TRUE]
          /\ UNCHANGED <<oob, crashed>>
       \/ /\ RenderOutOfBounds
          /\ \/ /\ cache' = IF RenderBuildsCache THEN buildCache ELSE cache
                /\ renderMesh' = [triangleIndices_ |-> buildTriangleIndices(Len(faces)),
                                  wireframeIndices_ |-> buildWireframeIndices(Len(edges))',
                                  valid_ |-> TRUE]
                /\ oob' = {"halfedge read"}
                /\ UNCHANGED crashed
             \/ /\ crashed' = TRUE
                /\ oob' = {"halfedge read"}
                /\ UNCHANGED <<cache, renderMesh>>
    /\ result' = [op |-> "renderBuild", ret |-> INVALID_INDEX, codes |-> {}, ok |-> TRUE]
    /\ UNCHANGED <<sink, threads>>

\* The mesh with its renderer: up to MaxVertsRender vertices, faces of up to
\* MaxFaceLenRender vertices (written from their smallest index, as in
\* AddFaceCache) and RenderMesh::build at any point in between.
FaceInputsRender == UNION { [1..n -> 0..(MaxVertsRender - 1)] : n \in 3..MaxFaceLenRender }

AddFaceRender ==
    /\ calls < MaxCallsRender
    /\ \E verts \in FaceInputsRender :
            /\ ~HasDuplicateVertex(verts)
            /\ \A i \in 1..Len(verts) : verts[i] < Len(vertices)
            /\ \A i \in 2..Len(verts) : verts[1] < verts[i]
            /\ addFace(verts)

\* Mesh::addVertex, up to MaxVertsRender vertices
addVertexRender ==
    /\ Defined
    /\ Len(vertices) < MaxVertsRender
    /\ vertices' = Append(vertices, Vertex)
    /\ vertexAttributes' = vertexAttributes + 1
    /\ result' = [op |-> "addVertex", ret |-> Len(vertices), codes |-> {}, ok |-> TRUE]
    /\ UNCHANGED <<halfEdges, edges, faces, faceAttributes, halfEdgeMap, args, oob, crashed,
                   calls, everRejected, cache>>
    /\ UNCHANGED others

NextRender == addVertexRender \/ AddFaceRender \/ renderBuild

SpecRender == Init /\ [][NextRender]_vars

\* --------------------------------------------------- Diagnostics::Context
\* The build with SUBDIV_ENABLE_PROFILING and SUBDIV_ENABLE_MEMORY_TRACKING
\* defined (config.hpp 4-14); without them the timing and memory calls are
\* empty inline functions (context.hpp 175-192).

\* Context::Mode, context.hpp 136-142
Modes == {"DISABLED", "ERRORS_ONLY", "ERRORS_AND_PROFILING", "FULL_DIAGNOSTICS"}

\* ErrorSeverity, context.hpp 18-23
Severities == {"WARNING", "ERROR", "FATAL"}

\* the names timers are started under, and the categories memory is booked on
TimerNames == {"subdivide"}
Categories == {"mesh"}

\* the mode tests of startTimer, stopTimer and recordTiming (context.cpp 185,
\* 197, 215) and of recordAllocation and recordDeallocation (context.cpp 297)
TimingMode(s) == s.m_mode = "ERRORS_AND_PROFILING" \/ s.m_mode = "FULL_DIAGNOSTICS"
MemoryMode(s) == s.m_mode = "FULL_DIAGNOSTICS"

\* TimingInfo::TimingInfo, context.hpp 51-52; avgMs is kept as a fraction
InitialMinMs == 1000000000
NewTimingInfo ==
    [durationMs |-> 0, callCount |-> 0, minMs |-> InitialMinMs, maxMs |-> 0,
     avgMs |-> <<0, 1>>]

\* TimingInfo::addSample, context.hpp 54-60
addSample(timing, ms) ==
    [durationMs |-> timing.durationMs + ms,
     callCount |-> timing.callCount + 1,
     minMs |-> IF ms < timing.minMs THEN ms ELSE timing.minMs,
     maxMs |-> IF ms > timing.maxMs THEN ms ELSE timing.maxMs,
     avgMs |-> <<timing.durationMs + ms, timing.callCount + 1>>]

\* MemoryInfo::MemoryInfo, context.hpp 73-74
NewMemoryInfo == [allocatedBytes |-> 0, peakBytes |-> 0, allocationCount |-> 0]

\* MemoryInfo::recordAllocation, context.hpp 76-80
memRecordAllocation(mem, bytes) ==
    [allocatedBytes |-> mem.allocatedBytes + bytes,
     peakBytes |-> IF mem.peakBytes > mem.allocatedBytes + bytes
                   THEN mem.peakBytes ELSE mem.allocatedBytes + bytes,
     allocationCount |-> mem.allocationCount + 1]

\* MemoryInfo::recordDeallocation, context.hpp 82-84
memRecordDeallocation(mem, bytes) ==
    [mem EXCEPT !.allocatedBytes = IF bytes > mem.allocatedBytes THEN 0
                                   ELSE mem.allocatedBytes - bytes]

\* map[key] of an unordered_map, a new element when the key is absent
MapGet(map, key, new) == IF key \in DOMAIN map THEN map[key] ELSE new

\* the number of samples aggregated under a timer name
callCount(s, name) == MapGet(s.m_timings, name, NewTimingInfo).callCount

\* addErrorLocked without the test of the mode
addErrorAnyMode(s, error) == [s EXCEPT !.m_errors = Append(@, error)]

\* Context::addError between lock and unlock, context.cpp 75-77
addErrorLocked(s, error) ==
    IF s.m_mode = "DISABLED" THEN s
    ELSE [s EXCEPT !.m_errors = Append(@, error)]

\* Context::startTimer between lock and unlock, context.cpp 185-189
startTimerLocked(s, name) ==
    IF ~TimingMode(s) THEN s
    ELSE [s EXCEPT !.m_activeTimers = @ \cup {name}]

\* Context::recordTiming between lock and unlock, context.cpp 215-223
recordTimingLocked(s, name, ms) ==
    IF ~TimingMode(s) THEN s
    ELSE [s EXCEPT !.m_timings =
            MapPut(@, name, addSample(MapGet(@, name, NewTimingInfo), ms))]

\* Context::recordAllocation between lock and unlock, context.cpp 297-305
recordAllocationLocked(s, category, bytes) ==
    IF ~MemoryMode(s) THEN s
    ELSE [s EXCEPT !.m_memoryTracking =
            MapPut(@, category, memRecordAllocation(MapGet(@, category, NewMemoryInfo), bytes))]

\* Context::recordDeallocation between lock and unlock, context.cpp 313-320
recordDeallocationLocked(s, category, bytes) ==
    IF ~MemoryMode(s) \/ category \notin DOMAIN s.m_memoryTracking THEN s
    ELSE [s EXCEPT !.m_memoryTracking =
            MapPut(@, category, memRecordDeallocation(@[category], bytes))]

\* Context::clear between lock and unlock, context.cpp 369-378
clearLocked(s) ==
    [s EXCEPT !.m_errors = << >>, !.m_timings = << >>, !.m_activeTimers = {},
              !.m_memoryTracking = << >>]

\* what a Context call leaves alone: the mesh, its cache and the renderer
beside == <<vertices, halfEdges, edges, faces, vertexAttributes, faceAttributes, halfEdgeMap,
            args, calls, everRejected, cache, renderMesh>>

\* std::lock_guard<std::mutex> lock(inst.m_mutex), the first statement of every
\* call: thread t, outside every call, gets the mutex when no thread holds it
\* and waits otherwise.  What a call does between there and the lock_guard's
\* destructor is one step: no other thread gets at the sink in between.
Locks(t) == Defined /\ threads[t].pc = "idle" /\ sink.m_mutex = 0

\* what the last call reported
Returned(op, ok) == result' = [op |-> op, ret |-> INVALID_INDEX, codes |-> {}, ok |-> ok]

\* thread t is using the error list through a reference or pointer that
\* getErrors or getLastError returned
Reading(t) == threads[t].pc = "reading"

\* A write to m_errors by thread t while another thread reads the list through
\* a returned reference is a data race: the behaviour is undefined, the
\* process may be terminated.
Race(t, from, to) ==
    IF from.m_errors # to.m_errors /\ \E u \in Threads \ {t} : Reading(u)
    THEN oob' = {"m_errors race"} /\ crashed' \in BOOLEAN
    ELSE UNCHANGED <<oob, crashed>>

\* Context::enable, context.cpp 39-44
enable(t) ==
    /\ Locks(t)
    /\ \E mode \in Modes : sink' = [sink EXCEPT !.m_mode = mode]
    /\ Returned("enable", TRUE)
    /\ UNCHANGED <<threads, oob, crashed>>
    /\ UNCHANGED beside

\* Context::disable, context.cpp 46-51
disable(t) ==
    /\ Locks(t)
    /\ sink' = [sink EXCEPT !.m_mode = "DISABLED"]
    /\ Returned("disable", TRUE)
    /\ UNCHANGED <<threads, oob, crashed>>
    /\ UNCHANGED beside

\* Context::addError, context.cpp 69-78
addError(t) ==
    /\ Locks(t)
    /\ Len(sink.m_errors) < MaxErrors
    /\ \E sev \in Severities : sink' = addErrorLocked(sink, [severity |-> sev, code |-> "E"])
    /\ Returned("addError", TRUE)
    /\ Race(t, sink, sink')
    /\ UNCHANGED threads
    /\ UNCHANGED beside

\* Context::hasErrors, context.cpp 80-85
hasErrors(t) ==
    /\ Locks(t)
    /\ Returned("hasErrors", sink.m_errors # << >>)
    /\ UNCHANGED <<sink, threads, oob, crashed>>
    /\ UNCHANGED beside

\* Context::getErrors, context.cpp 113-118: the reference to m_errors leaves
\* the function as the lock_guard is destroyed
getErrors(t) ==
    /\ Locks(t)
    /\ threads' = [threads EXCEPT ![t] = [pc |-> "reading", op |-> "getErrors"]]
    /\ Returned("getErrors", TRUE)
    /\ UNCHANGED <<sink, oob, crashed>>
    /\ UNCHANGED beside

\* Context::getLastError, context.cpp 120-129: nullptr, or the address of the
\* last element
getLastError(t) ==
    /\ Locks(t)
    /\ threads' = [threads EXCEPT ![t] = IF sink.m_errors = << >> THEN Idle
                                          ELSE [pc |-> "reading", op |-> "getLastError"]]
    /\ Returned("getLastError", sink.m_errors # << >>)
    /\ UNCHANGED <<sink, oob, crashed>>
    /\ UNCHANGED beside

\* the caller is done with what getErrors or getLastError gave it
\* (test_diagnostics.cpp 24-28 and 52: err->code, getErrors().size())
useErrors(t) ==
    /\ Defined
    /\ Reading(t)
    /\ threads' = [threads EXCEPT ![t] = Idle]
    /\ Returned("useErrors", TRUE)
    /\ UNCHANGED <<sink, oob, crashed>>
    /\ UNCHANGED beside

\* Context::startTimer, context.cpp 180-190
startTimer(t) ==
    /\ Locks(t)
    /\ \E name \in TimerNames : sink' = startTimerLocked(sink, name)
    /\ Returned("startTimer", TRUE)
    /\ UNCHANGED <<threads, oob, crashed>>
    /\ UNCHANGED beside

\* Context::stopTimer, context.cpp 192-208.  With the timer active in a timing
\* mode, line 205 calls recordTiming, whose lock_guard (line 213) locks the
\* std::mutex this thread already holds.  That is undefined behaviour; what
\* builds do: the thread waits for itself forever (a plain pthread mutex),
\* lock() throws std::system_error and stopTimer is left through the exception
\* (a checking mutex), or the second lock goes through (mutex calls that are
\* empty in a process without the thread library) and the sample is recorded.
stopTimer(t) ==
    /\ Locks(t)
    /\ \E name \in TimerNames :
        /\ callCount(sink, name) < MaxSamples
        /\ IF ~TimingMode(sink) \/ name \notin sink.m_activeTimers
           THEN /\ Returned("stopTimer", TRUE)
                /\ UNCHANGED <<sink, threads, oob, crashed>>
           ELSE /\ oob' = {"m_mutex relock"}
                /\ UNCHANGED crashed
                /\ \/ /\ threads' = [threads EXCEPT ![t] = [pc |-> "deadlocked", op |-> "stopTimer"]]
                      /\ sink' = [sink EXCEPT !.m_mutex = t]
                      /\ UNCHANGED result
                   \/ /\ Returned("stopTimer", FALSE)
                      /\ UNCHANGED <<sink, threads>>
                   \/ /\ \E ms \in 1..MaxMs :
                            sink' = [recordTimingLocked(sink, name, ms)
                                        EXCEPT !.m_activeTimers = @ \ {name}]
                      /\ Returned("stopTimer", TRUE)
                      /\ UNCHANGED threads
    /\ UNCHANGED beside

\* Context::recordTiming, context.cpp 210-224 (called by ScopedTimer's
\* destructor, context.cpp 21-28, and by callers)
recordTiming(t) ==
    /\ Locks(t)
    /\ \E name \in TimerNames, ms \in 1..MaxMs :
            /\ callCount(sink, name) < MaxSamples
            /\ sink' = recordTimingLocked(sink, name, ms)
    /\ Returned("recordTiming", TRUE)
    /\ UNCHANGED <<threads, oob, crashed>>
    /\ UNCHANGED beside

\* Context::recordAllocation, context.cpp 292-306
recordAllocation(t) ==
    /\ Locks(t)
    /\ \E category \in Categories, bytes \in 1..MaxBytes :
            /\ MapGet(sink.m_memoryTracking, category, NewMemoryInfo).allocationCount < MaxAllocs
            /\ sink' = recordAllocationLocked(sink, category, bytes)
    /\ Returned("recordAllocation", TRUE)
    /\ UNCHANGED <<threads, oob, crashed>>
    /\ UNCHANGED beside

\* Context::recordDeallocation, context.cpp 308-321
recordDeallocation(t) ==
    /\ Locks(t)
    /\ \E category \in Categories, bytes \in 1..MaxBytes :
            sink' = recordDeallocationLocked(sink, category, bytes)
    /\ Returned("recordDeallocation", TRUE)
    /\ UNCHANGED <<threads, oob, crashed>>
    /\ UNCHANGED beside

\* Context::clear, context.cpp 364-379
clear(t) ==
    /\ Locks(t)
    /\ sink' = clearLocked(sink)
    /\ Returned("clear", TRUE)
    /\ Race(t, sink, sink')
    /\ UNCHANGED threads
    /\ UNCHANGED beside

\* The sink under calls from NumThreads threads in any interleaving.
NextSink ==
    \E t \in Threads :
        \/ enable(t) \/ disable(t) \/ addError(t) \/ hasErrors(t)
        \/ getErrors(t) \/ getLastError(t) \/ useErrors(t)
        \/ startTimer(t) \/ stopTimer(t) \/ recordTiming(t)
        \/ recordAllocation(t) \/ recordDeallocation(t) \/ clear(t)

SpecSink == Init /\ [][NextSink]_vars

\* ------------------------------------------------------------------ claims
\* the consecutive ordered pairs (a,b) of a vertex list, the closing one included
FacePairs(verts) ==
    {<<verts[i], verts[(i % Len(verts)) + 1]>> : i \in 1..Len(verts)}

\* a vertex list that passes the checks on its own shape: three or more
\* distinct indices, each of an existing vertex
WellFormed(verts) ==
    /\ Len(verts) >= 3
    /\ ~HasDuplicateVertex(verts)
    /\ \A i \in 1..Len(verts) : verts[i] < Len(vertices)

\* some half-edge of the array runs from a to b
Traversed(a, b) ==
    \E h \in Indices(halfEdges) : getFromVertex(h) = a /\ At(halfEdges, h).to = b

\* the undirected edge {a,b} carries a twin-linked pair of half-edges
HasTwoFaces(a, b) ==
    \E h \in Indices(halfEdges) :
        LET t == At(halfEdges, h).twin
        IN  /\ t # INVALID_INDEX
            /\ t < Len(halfEdges)
            /\ At(halfEdges, t).twin = h
            /\ getFromVertex(h) = a
            /\ At(halfEdges, h).to = b

\* the step is an addFace call that stayed inside its arrays and returned
AddFaceReturned == calls' = calls + 1 /\ oob' = {} /\ ~crashed'

\* C1: an addFace call that returns INVALID_INDEX leaves the vertex records,
\* the half-edge, edge and face arrays and the directed-edge map as they were.
C1_RejectedAddFaceChangesNothing ==
    [][(AddFaceReturned /\ result'.ret = INVALID_INDEX)
        => UNCHANGED <<vertices, halfEdges, edges, faces, halfEdgeMap>>]_vars

\* C2: addFace is rejected with NON_MANIFOLD_EDGE or DUPLICATE_DIRECTED_EDGE,
\* and the number of half-edges stays, whenever one of its ordered pairs (a,b)
\* is already traversed from a to b by a half-edge of an existing face.
C2_SameDirectionRejected ==
    [][(/\ calls' = calls + 1
        /\ WellFormed(args')
        /\ \E p \in FacePairs(args') : Traversed(p[1], p[2]))
        => (/\ ~crashed'
            /\ result'.ret = INVALID_INDEX
            /\ result'.codes # {}
            /\ result'.codes \subseteq {"NON_MANIFOLD_EDGE", "DUPLICATE_DIRECTED_EDGE"}
            /\ Len(halfEdges') = Len(halfEdges))]_vars

\* C3: addFace is rejected with NON_MANIFOLD_EDGE whenever one of its pairs
\* lies on an undirected edge that already has a twin-linked half-edge pair,
\* in whichever direction the new face runs along it.
C3_ThirdFaceOnEdgeRejected ==
    [][(/\ calls' = calls + 1
        /\ WellFormed(args')
        /\ \E p \in FacePairs(args') : HasTwoFaces(p[1], p[2]) \/ HasTwoFaces(p[2], p[1]))
        => (/\ ~crashed'
            /\ result'.ret = INVALID_INDEX
            /\ result'.codes = {"NON_MANIFOLD_EDGE"})]_vars

\* C4: after any sequence of addVertex and addFace calls in which every
\* addFace succeeded, validate() returns true (it reports no error code).
C4_ValidateAfterSuccess ==
    (calls > 0 /\ ~everRejected /\ ~crashed) => validateErrors = {}

\* C5: in every state reached by addVertex and accepted or rejected addFace
\* calls (here: calls that stayed inside their arrays), every half-edge h with
\* a twin has twin[h] inside the array, twin[twin[h]] = h,
\* to[twin[h]] = from_vertex(h) and edge[twin[h]] = edge[h].
C5_TwinSymmetry ==
    Defined =>
    \A h \in Indices(halfEdges) :
        LET t == At(halfEdges, h).twin
        IN  t # INVALID_INDEX =>
                /\ t < Len(halfEdges)
                /\ At(halfEdges, t).twin = h
                /\ At(halfEdges, t).to = getFromVertex(h)
                /\ At(halfEdges, t).edge = At(halfEdges, h).edge

\* C6: every half-edge h has next[h] and prev[h] inside the array, with
\* next[prev[h]] = h and prev[next[h]] = h.
C6_NextPrevSymmetry ==
    \A h \in Indices(halfEdges) :
        LET he == At(halfEdges, h)
        IN  /\ he.next < Len(halfEdges)
            /\ he.prev < Len(halfEdges)
            /\ At(halfEdges, he.prev).next = h
            /\ At(halfEdges, he.next).prev = h

\* C6 witness: half-edges of two faces are in the array and a later call was
\* rolled back.
C6_Witness ==
    /\ Len(faces) >= 2
    /\ Len(halfEdges) >= 6
    /\ result.op = "addFace"
    /\ result.codes = {"NON_MANIFOLD_EDGE"}

\* the half-edge reached from h by k steps along next (INVALID_INDEX once the
\* walk leaves the array)
RECURSIVE NextN(_, _)
NextN(h, k) ==
    IF h >= Len(halfEdges) THEN INVALID_INDEX
    ELSE IF k = 0 THEN h
    ELSE NextN(At(halfEdges, h).next, k - 1)

\* the half-edges visited by walking valence steps from faces[f].edge
FaceLoop(f) == {NextN(At(faces, f).edge, k) : k \in 0 .. (At(faces, f).valence - 1)}

\* C7: walking next from faces[f].edge returns to the start after exactly
\* valence steps, every half-edge visited has face = f, and every half-edge of
\* the array lies on exactly one face's loop.
C7_FaceLoops ==
    /\ \A f \in Indices(faces) :
            LET start == At(faces, f).edge
                v == At(faces, f).valence
            IN  /\ start < Len(halfEdges)
                /\ NextN(start, v) = start
                /\ \A k \in 1 .. (v - 1) : NextN(start, k) # start
                /\ \A h \in FaceLoop(f) : h < Len(halfEdges) /\ At(halfEdges, h).face = f
    /\ \A h \in Indices(halfEdges) :
            Cardinality({f \in Indices(faces) : h \in FaceLoop(f)}) = 1

\* C7 witness: an earlier call was rolled back and left edge records of its
\* own behind, and the last call added a third face on top of that.
C7_Witness ==
    /\ everRejected
    /\ Len(edges) > Cardinality({At(halfEdges, h).edge : h \in Indices(halfEdges)})
    /\ result.op = "addFace"
    /\ result.ret = 2
    /\ Len(faces) = 3

\* C8: in every state reached (here: by calls that stayed inside their arrays)
\* every edge record is referenced by exactly one half-edge or by exactly two
\* half-edges that are twins of each other.
C8_EdgeReferences ==
    Defined =>
    \A e \in Indices(edges) :
        LET refs == {h \in Indices(halfEdges) : At(halfEdges, h).edge = e}
        IN  \/ Cardinality(refs) = 1
            \/ /\ Cardinality(refs) = 2
               /\ \A h \in refs : At(halfEdges, h).twin \in refs \ {h}

\* C9: in every state reached (here: by calls that stayed inside their arrays)
\* every entry (a,b) -> h of the directed-edge map has h inside the half-edge
\* array, from_vertex(h) = a and to[h] = b.
C9_MapEntries ==
    Defined =>
    \A key \in DOMAIN halfEdgeMap :
        LET h == halfEdgeMap[key]
        IN  /\ h < Len(halfEdges)
            /\ getFromVertex(h) = key \div (2^IndexBits)
            /\ At(halfEdges, h).to = key % (2^IndexBits)

\* C10: addFace with a vertex index >= num_vertices returns INVALID_INDEX with
\* code INVALID_VERTEX_INDEX, touches no vertex record outside the vertex
\* array and changes no state (stated for lists of three or more distinct
\* indices, which pass the checks that come before, and for calls that return).
C10_InvalidVertexIndexRejected ==
    [][(/\ calls' = calls + 1
        /\ ~crashed'
        /\ Len(args') >= 3
        /\ ~HasDuplicateVertex(args')
        /\ \E i \in 1..Len(args') : args'[i] >= Len(vertices))
        => (/\ oob' = {}
            /\ result'.ret = INVALID_INDEX
            /\ result'.codes = {"INVALID_VERTEX_INDEX"}
            /\ UNCHANGED mesh)]_vars

\* the states in which the loop of addFace(verts) can end when it is called in
\* the current state
LoopOutcomes(verts) ==
    addFaceLoop(verts, Len(faces), 1,
                [vertices |-> vertices, halfEdges |-> halfEdges, edges |-> edges,
                 halfEdgeMap |-> halfEdgeMap, faceHalfEdges |-> << >>,
                 oob |-> {}, status |-> "run"])

\* C11: within an addFace call nothing is appended to or written in the
\* vertex, half-edge, edge or face arrays or the directed-edge map before all
\* of the call's failure checks have passed: a call that fails a check has, at
\* that point, appended no half-edge and no edge, inserted no map entry and set
\* no outgoing field.
C11_ChecksBeforeWrites ==
    [][(/\ AddFaceReturned
        /\ WellFormed(args')
        /\ result'.ret = INVALID_INDEX)
        => \A st \in LoopOutcomes(args') :
               st.status = "rollback" =>
                   /\ st.faceHalfEdges = << >>
                   /\ st.vertices = vertices
                   /\ st.edges = edges
                   /\ st.halfEdgeMap = halfEdgeMap]_vars

\* C12: findHalfEdge(a,b) returns a half-edge running from a to b whenever
\* one exists (also when only the key (b,a) is in the map) and INVALID_INDEX
\* when none does (stated for meshes on which no call was rejected).
C12_FindHalfEdge ==
    (Defined /\ ~everRejected) =>
    \A a \in Indices(vertices) : \A b \in Indices(vertices) :
        LET h == findHalfEdge(a, b)
        IN  IF Traversed(a, b)
            THEN /\ h < Len(halfEdges)
                 /\ getFromVertex(h) = a
                 /\ At(halfEdges, h).to = b
            ELSE h = INVALID_INDEX

\* the edge records with vertex v as an endpoint: those referenced by a
\* half-edge that leaves v or arrives at v
IncidentEdges(v) ==
    {At(halfEdges, h).edge : h \in {k \in Indices(halfEdges) :
                                       getFromVertex(k) = v \/ At(halfEdges, k).to = v}}
    \cap Indices(edges)

\* C18: getVertexValence(v) is the number of undirected edges incident to v
\* (0 for an isolated vertex, 2 for the vertices of a lone triangle, ...),
\* stated for meshes on which no call was rejected.
C18_TraversalValence ==
    (Defined /\ ~everRejected) =>
    \A v \in Indices(vertices) : getVertexValence(v) = Cardinality(IncidentEdges(v))

\* the last call was a cache build that stayed inside its arrays: the cache
\* is the one built from the mesh of this state
FreshlyBuilt == result.op = "build" /\ Defined

\* every call so far was accepted and no two half-edges run from the same
\* vertex to the same vertex: the faces are faces the builder is meant to accept
AcceptedFacesOnly ==
    /\ ~everRejected
    /\ \A h \in Indices(halfEdges) : \A k \in Indices(halfEdges) :
            (h # k /\ At(halfEdges, h).to = At(halfEdges, k).to)
                => getFromVertex(h) # getFromVertex(k)

\* the vertices that share an undirected edge with v
Neighbours(v) ==
    {At(halfEdges, h).to : h \in {k \in Indices(halfEdges) : getFromVertex(k) = v}}
    \cup {getFromVertex(h) : h \in {k \in Indices(halfEdges) : At(halfEdges, k).to = v}}

\* the set of entries of a sequence
Entries(seq) == {seq[k] : k \in 1..Len(seq)}

\* C13: after addVertex and after a successful addFace on a mesh whose cache
\* was built, isValid() is false: a step that appends a vertex or a face
\* never leaves a valid cache behind.
C13_MutationInvalidatesCache ==
    [][(/\ isValid
        /\ Len(vertices') > Len(vertices) \/ Len(faces') > Len(faces))
        => ~isValid']_vars

\* C14: after build() returns isValid() is true, for every mesh, the mesh
\* without vertices included; on a cleared or never built cache it is false.
C14_BuildMakesValid ==
    /\ FreshlyBuilt => isValid
    /\ result.op = "none" => ~isValid

\* C15: after a cache build on a mesh of accepted faces, the one-ring of
\* every vertex v has valence(v) entries, and they are exactly the vertices
\* that share an edge with v, each listed once.
C15_OneRingIsNeighbours ==
    (FreshlyBuilt /\ AcceptedFacesOnly) =>
    \A v \in Indices(vertices) :
        LET ring == getVertexOneRing(v)
        IN  /\ Len(ring) = getValence(v)
            /\ Entries(ring) = Neighbours(v)
            /\ Cardinality(Entries(ring)) = Len(ring)

\* a is followed by b counter-clockwise around v: some face has the half-edge
\* v->a and, right before it, the half-edge b->v
CcwSuccessor(v, a, b) ==
    \E h \in Indices(halfEdges) :
        /\ getFromVertex(h) = v
        /\ At(halfEdges, h).to = a
        /\ getFromVertex(At(halfEdges, h).prev) = b

\* C16: the one-ring of every vertex is in counter-clockwise order: each
\* entry is followed by its counter-clockwise successor, cyclically for an
\* interior vertex (stated for the vertices whose walk wrote every slot of
\* the one-ring and listed all their neighbours once).
C16_OneRingCounterClockwise ==
    (FreshlyBuilt /\ AcceptedFacesOnly) =>
    \A v \in Indices(vertices) :
        LET ring == getVertexOneRing(v)
            n == Len(ring)
        IN  (/\ At(vertices, v).outgoing # INVALID_INDEX
             /\ Len(ringWalk(v).written) = n
             /\ Entries(ring) = Neighbours(v)
             /\ Cardinality(Entries(ring)) = n) =>
                /\ \A k \in 1..(n - 1) : CcwSuccessor(v, ring[k], ring[k + 1])
                /\ (n > 0 /\ ~isBoundaryVertex(v)) => CcwSuccessor(v, ring[n], ring[1])

\* the neighbours joined to v by a boundary edge (a half-edge without twin)
BoundaryNeighbours(v) ==
    {At(halfEdges, h).to : h \in {k \in Indices(halfEdges) :
            getFromVertex(k) = v /\ At(halfEdges, k).twin = INVALID_INDEX}}
    \cup {getFromVertex(h) : h \in {k \in Indices(halfEdges) :
            At(halfEdges, k).to = v /\ At(halfEdges, k).twin = INVALID_INDEX}}

\* v is a boundary vertex whose faces form one open fan: one boundary
\* half-edge leaves v and one arrives at it
OpenFan(v) ==
    /\ Cardinality({k \in Indices(halfEdges) :
            getFromVertex(k) = v /\ At(halfEdges, k).twin = INVALID_INDEX}) = 1
    /\ Cardinality({k \in Indices(halfEdges) :
            At(halfEdges, k).to = v /\ At(halfEdges, k).twin = INVALID_INDEX}) = 1

\* C17: for every boundary vertex with an open-fan neighbourhood, in whatever
\* order its faces were added, the first and the last entry of the one-ring
\* are the two neighbours joined to it by boundary edges.
C17_BoundaryRingEnds ==
    (FreshlyBuilt /\ AcceptedFacesOnly) =>
    \A v \in Indices(vertices) :
        OpenFan(v) =>
            LET ring == getVertexOneRing(v)
            IN  /\ Len(ring) >= 2
                /\ {ring[1], ring[Len(ring)]} = BoundaryNeighbours(v)

\* C19: after a cache build valence(v) is the number of edges with v as an
\* endpoint, for every vertex (0 for an isolated vertex).
C19_CacheValence ==
    FreshlyBuilt =>
    \A v \in Indices(vertices) :
        /\ getValence(v) = Cardinality(IncidentEdges(v))
        /\ At(vertices, v).outgoing = INVALID_INDEX => getValence(v) = 0

\* the faces adjacent to edge e
AdjacentFaces(e) ==
    {At(halfEdges, h).face : h \in {k \in Indices(halfEdges) : At(halfEdges, k).edge = e}}

\* C20: after a cache build isBoundaryEdge(e) is true exactly when e has
\* fewer than two adjacent faces, isBoundaryVertex(v) exactly when some edge
\* incident to v is a boundary edge, and the two totals count these edges and
\* vertices.
C20_BoundaryFlags ==
    FreshlyBuilt =>
    LET boundaryEdges == {e \in Indices(edges) : Cardinality(AdjacentFaces(e)) < 2}
        boundaryVerts == {v \in Indices(vertices) : IncidentEdges(v) \cap boundaryEdges # {}}
    IN  /\ \A e \in Indices(edges) : isBoundaryEdge(e) <=> e \in boundaryEdges
        /\ \A v \in Indices(vertices) : isBoundaryVertex(v) <=> v \in boundaryVerts
        /\ cache.numBoundaryEdges_ = Cardinality(boundaryEdges)
        /\ cache.numBoundaryVertices_ = Cardinality(boundaryVerts)

\* the vertices met by walking next from faces[f].edge for valence steps and
\* taking from_vertex at each half-edge (INVALID_INDEX where the walk has left
\* the array)
LoopVertices(f) ==
    [k \in 1 .. At(faces, f).valence |->
        LET h == NextN(At(faces, f).edge, k - 1)
        IN  IF h < Len(halfEdges) THEN getFromVertex(h) ELSE INVALID_INDEX]

\* the cache holds a slice for face f and the accessors' reads of its offsets
\* stay inside the arrays
CachedFace(f) ==
    /\ f + 1 < Len(cache.faceVertexOffsets_)
    /\ ~sliceOutOfBounds(cache.faceVertexOffsets_, f)

\* C21: an accepted addFace(v_0..v_{n-1}) that returns f leaves a loop whose
\* walk along next from faces[f].edge, taking from_vertex, yields v_0..v_{n-1}
\* in that order; no later call, accepted or rejected, changes the walk of an
\* existing face; and a built cache's face_vertices(f) is that walk.
C21_FaceLoopRoundTrip ==
    /\ [](Defined => (\A f \in Indices(faces) :
                CachedFace(f) => getFaceVertices(f) = LoopVertices(f)))
    /\ [][((AddFaceReturned /\ result'.ret # INVALID_INDEX)
                => \A f \in 0..Len(faces) : f = result'.ret => LoopVertices(f)' = args')
           /\ (Defined' => \A f \in Indices(faces) : LoopVertices(f)' = LoopVertices(f))]_vars

\* C21 witness: the cache was built over two faces after a rejected call, and
\* holds the first face's three vertices.
C21_Witness ==
    /\ FreshlyBuilt
    /\ everRejected
    /\ Len(faces) >= 2
    /\ CachedFace(0)
    /\ Len(getFaceVertices(0)) = 3

\* offsets is a CSR offset array for n elements over the value array values
CsrOffsets(offsets, values, n) ==
    /\ Len(offsets) = n + 1
    /\ offsets[1] = 0
    /\ \A k \in 1..n : offsets[k] <= offsets[k + 1]
    /\ offsets[n + 1] = Len(values)

\* C22: after every cache build, on any mesh including the empty mesh, each of
\* the five CSR offset arrays has length N+1 for its N elements, starts with 0,
\* is non-decreasing and ends with the length of its value array.
C22_OffsetArrays ==
    FreshlyBuilt =>
        /\ CsrOffsets(cache.oneRingOffsets_, cache.oneRings_, Len(vertices))
        /\ CsrOffsets(cache.vertexFaceOffsets_, cache.vertexFaces_, Len(vertices))
        /\ CsrOffsets(cache.edgeFaceOffsets_, cache.edgeFaces_, Len(edges))
        /\ CsrOffsets(cache.faceVertexOffsets_, cache.faceVertices_, Len(faces))
        /\ CsrOffsets(cache.faceEdgeOffsets_, cache.faceEdges_, Len(faces))

\* C23: TopologyCache::build terminates and never indexes the half-edge, vertex,
\* edge or cache arrays out of bounds, for every mesh state reachable through
\* add_vertex and add_face calls, states left by rejected calls included.
C23_BuildStaysInBounds ==
    result.op = "build" => (oob = {} /\ ~crashed)

\* the triangles (v_0, v_i, v_{i+1}), i = 1 .. n-2, of the vertex loop of face f
FanOf(f) ==
    LET v == LoopVertices(f)
        n == Len(v)
    IN  [i \in 1..(n - 2) |-> <<v[1], v[i + 1], v[i + 2]>>]

\* the index buffer cut into triangles
TrianglesOf(indices) ==
    [t \in 1..(Len(indices) \div 3) |->
        <<indices[3 * t - 2], indices[3 * t - 1], indices[3 * t]>>]

\* the fans of faces 0 .. n-1 one after the other
RECURSIVE Fans(_)
Fans(n) == IF n = 0 THEN << >> ELSE Fans(n - 1) \o FanOf(n - 1)

\* the sum of (valence - 2) over faces 0 .. n-1
RECURSIVE FanCount(_)
FanCount(n) == IF n = 0 THEN 0 ELSE FanCount(n - 1) + (At(faces, n - 1).valence - 2)

RenderBuilt == result.op = "renderBuild" /\ Defined

\* C24: RenderMesh::build emits, for every face with vertex loop v_0..v_{n-1}
\* and in face-index order, exactly the triangles (v_0, v_i, v_{i+1}) for
\* i = 1..n-2, so that the triangle count is the sum over faces of (valence - 2).
C24_FanTriangulation ==
    RenderBuilt =>
        /\ Len(renderMesh.triangleIndices_) = 3 * FanCount(Len(faces))
        /\ TrianglesOf(renderMesh.triangleIndices_) = Fans(Len(faces))

\* a pentagon and a triangle have been triangulated
C24_Witness ==
    /\ RenderBuilt
    /\ Len(faces) = 2
    /\ At(faces, 0).valence = 5
    /\ At(faces, 1).valence = 3
    /\ Len(renderMesh.triangleIndices_) = 12
    /\ everRejected = FALSE

\* segment number e (from 0) of the wireframe index buffer
Segment(e) == <<renderMesh.wireframeIndices_[2 * e + 1], renderMesh.wireframeIndices_[2 * e + 2]>>

\* the vertex pairs joined by the half-edges of undirected edge e
EdgeEnds(e) ==
    {{getFromVertex(h), At(halfEdges, h).to} : h \in {k \in Indices(halfEdges) : At(halfEdges, k).edge = e}}

\* C25: RenderMesh::build emits exactly one wireframe segment per undirected edge
\* of the current mesh, with endpoints (u,w), u < w, equal to that edge's
\* endpoints; no vertex pair appears twice and the number of segments equals
\* num_edges.
C25_WireframeSegments ==
    RenderBuilt =>
        /\ Len(renderMesh.wireframeIndices_) = 2 * Len(edges)
        /\ \A e \in Indices(edges) :
                /\ Segment(e)[1] < Segment(e)[2]
                /\ {Segment(e)[1], Segment(e)[2]} \in EdgeEnds(e)
        /\ \A e1, e2 \in Indices(edges) : Segment(e1) = Segment(e2) => e1 = e2

\* C26: in a timing-enabled mode, start_timer(n) followed by stop_timer(n)
\* returns to the caller and increases the sample count aggregated under n by
\* exactly one.
C26_StopTimerAddsOneSample ==
    [][\A t \in Threads : \A name \in TimerNames :
            (stopTimer(t) /\ TimingMode(sink) /\ name \in sink.m_activeTimers)
                => /\ threads'[t].pc = "idle"
                   /\ result'.op = "stopTimer" /\ result'.ok
                   /\ callCount(sink, name)' = callCount(sink, name) + 1]_vars

\* C27: under any interleaving of record, query and clear calls issued by
\* several threads, every read or write of the sink's error list happens while
\* the accessing thread holds the sink's mutex: no thread reads the list, or an
\* element of it, while another thread appends to or clears it.
C27_ErrorListUnderMutex == "m_errors race" \notin oob

\* the records the sink stores
Records == <<sink.m_errors, sink.m_timings, sink.m_memoryTracking>>

\* a step of one of the recording calls of thread t
RecordingCall(t) ==
    \/ addError(t) \/ startTimer(t) \/ stopTimer(t) \/ recordTiming(t)
    \/ recordAllocation(t) \/ recordDeallocation(t)

EmptySlice(values, offsets, i) ==
    i + 1 >= Len(offsets) =>
        /\ ~sliceOutOfBounds(offsets, i)
        /\ slice(values, offsets, i) = << >>

\* C29: the slice accessors get_vertex_one_ring, get_vertex_faces,
\* get_edge_faces, get_face_vertices and get_face_edges return an empty slice,
\* without reading any array out of bounds, for every index that is not a valid
\* element, including every index when the cache has never been built, has been
\* cleared, or was built from an empty mesh.
C29_InvalidIndexGivesEmptySlice ==
    \A i \in 0..INVALID_INDEX :
        /\ EmptySlice(cache.oneRings_, cache.oneRingOffsets_, i)
        /\ EmptySlice(cache.vertexFaces_, cache.vertexFaceOffsets_, i)
        /\ EmptySlice(cache.edgeFaces_, cache.edgeFaceOffsets_, i)
        /\ EmptySlice(cache.faceVertices_, cache.faceVertexOffsets_, i)
        /\ EmptySlice(cache.faceEdges_, cache.faceEdgeOffsets_, i)

\* the half-edges the rotation walk reaches from those of the set reached:
\* forward next[twin[h]], backward twin[prev[h]]
RECURSIVE Rotation(_)
Rotation(reached) ==
    LET forward == {At(halfEdges, At(halfEdges, h).twin).next :
                        h \in {k \in reached : At(halfEdges, k).twin < Len(halfEdges)}}
        backward == {At(halfEdges, At(halfEdges, h).prev).twin :
                        h \in {k \in reached : At(halfEdges, k).prev < Len(halfEdges)}}
        more == reached \cup ((forward \cup backward) \cap Indices(halfEdges))
    IN  IF more = reached THEN reached ELSE Rotation(more)

\* the half-edges that leave vertex v
Leaving(v) == {h \in Indices(halfEdges) : getFromVertex(h) = v}

\* the faces around v form one closed fan or one open fan
OneFan(v) ==
    Leaving(v) # {} =>
        /\ At(vertices, v).outgoing \in Leaving(v)
        /\ Leaving(v) \subseteq Rotation({At(vertices, v).outgoing})

\* no ordered pair of vertices is traversed by two half-edges
NoPairTwice ==
    \A h, k \in Indices(halfEdges) :
        (getFromVertex(h) = getFromVertex(k) /\ At(halfEdges, h).to = At(halfEdges, k).to) => h = k

\* C30: after any sequence of accepted add_face calls the mesh is
\* vertex-manifold: for every vertex v, all half-edges leaving v are reached
\* from outgoing[v] by the rotation walk, i.e. the faces around v form one
\* closed fan or one open fan (stated for meshes on which every directed pair
\* is traversed once).
C30_VertexManifold ==
    (Defined /\ ~everRejected /\ NoPairTwice) => \A v \in Indices(vertices) : OneFan(v)

\* the unordered vertex pairs joined by a half-edge
JoinedPairs ==
    {{getFromVertex(h), At(halfEdges, h).to} : h \in Indices(halfEdges)}

\* C31: in every reachable state num_edges equals the number of distinct
\* unordered vertex pairs {a,b} joined by a half-edge of an accepted face: no
\* two edge records have the same endpoint pair and no edge record exists for a
\* pair that no accepted face uses.
C31_EdgesAreJoinedPairs ==
    Defined =>
        /\ Len(edges) = Cardinality(JoinedPairs)
        /\ \A e \in Indices(edges) : Cardinality(EdgeEnds(e)) = 1
        /\ \A e1, e2 \in Indices(edges) : EdgeEnds(e1) = EdgeEnds(e2) => e1 = e2

\* the rules of the data model, one conjunct per rule: indices in range,
\* next/prev symmetry, the four twin rules, face loops of the right length made of the
\* face's own half-edges, one or two half-edges per edge, map entries that
\* name the half-edge of their key, attribute arrays as long as their arrays
DataModelHolds ==
    /\ \A h \in Indices(halfEdges) :
            LET he == At(halfEdges, h)
            IN  /\ he.to < Len(vertices)
                /\ he.edge < Len(edges)
                /\ he.face < Len(faces)
                /\ he.next < Len(halfEdges)
                /\ he.prev < Len(halfEdges)
                /\ At(halfEdges, he.prev).next = h
                /\ At(halfEdges, he.next).prev = h
                /\ he.twin # INVALID_INDEX =>
                        /\ he.twin < Len(halfEdges)
                        /\ At(halfEdges, he.twin).twin = h
                        /\ At(halfEdges, he.twin).to = getFromVertex(h)
                        /\ At(halfEdges, he.twin).edge = he.edge
    /\ \A f \in Indices(faces) :
            LET start == At(faces, f).edge
                v == At(faces, f).valence
            IN  /\ start < Len(halfEdges)
                /\ NextN(start, v) = start
                /\ \A k \in 1 .. (v - 1) : NextN(start, k) # start
                /\ \A h \in FaceLoop(f) : h < Len(halfEdges) /\ At(halfEdges, h).face = f
    /\ \A e \in Indices(edges) :
            Cardinality({h \in Indices(halfEdges) : At(halfEdges, h).edge = e}) \in {1, 2}
    /\ \A key \in DOMAIN halfEdgeMap :
            LET h == halfEdgeMap[key]
            IN  /\ h < Len(halfEdges)
                /\ getFromVertex(h) = key \div (2^IndexBits)
                /\ At(halfEdges, h).to = key % (2^IndexBits)
    /\ vertexAttributes = Len(vertices)
    /\ faceAttributes = Len(faces)

\* mesh.hpp 93-100: the topology arrays are public data, so validate can be
\* called on any contents.  Contents of MaxContents vertices, half-edges and
\* faces and of up to MaxContents edge records: every half-edge field is drawn from the indices in range
\* (twin also from INVALID_INDEX, and never the half-edge itself), every face
\* starts at the half-edge of its own index with any valence, the map is empty
\* or holds the key (0,1), one attribute array may be a record short.
InitContents ==
    /\ vertices = [v \in 1..MaxContents |-> Vertex]
    /\ halfEdges \in [1..MaxContents ->
            [to : 0..(MaxContents - 1), next : 0..(MaxContents - 1),
             prev : 0..(MaxContents - 1), twin : 0..(MaxContents - 1) \cup {INVALID_INDEX},
             face : 0..(MaxContents - 1), edge : 0..(MaxContents - 1)]]
    /\ \A h \in Indices(halfEdges) : At(halfEdges, h).twin # h
    /\ edges \in {[e \in 1..n |-> Edge] : n \in 1..MaxContents}
    /\ faces \in {fs \in [1..MaxContents -> [edge : 0..(MaxContents - 1), valence : 1..MaxContents]] :
                    \A f \in 1..MaxContents : fs[f].edge = f - 1}
    /\ vertexAttributes \in {MaxContents - 1, MaxContents}
    /\ faceAttributes = MaxContents
    /\ halfEdgeMap \in {<< >>} \cup
            {[k \in {makeDirectedEdgeKey(0, 1)} |-> h] : h \in 0..(MaxContents - 1)}
    /\ args = << >>
    /\ result = [op |-> "none", ret |-> INVALID_INDEX, codes |-> {}, ok |-> TRUE]
    /\ oob = {}
    /\ crashed = FALSE
    /\ calls = 0
    /\ everRejected = FALSE
    /\ cache = ClearedCache
    /\ renderMesh = ClearedRender
    /\ sink = NewContext
    /\ threads = [t \in Threads |-> Idle]

NextValidate == validate

SpecValidate == InitContents /\ [][NextValidate]_vars

\* C32: validate() returns false whenever a rule of the data model is broken
\* (next/prev symmetry, twin symmetry, to[twin[h]] = from_vertex(h),
\* edge[twin[h]] = edge[h], face loops, 1 or 2 half-edges per edge, map
\* entries, attribute array lengths) and true otherwise, whatever the contents
\* of the arrays and the map.
C32_ValidateExact ==
    result.op = "validate" => (result.ok <=> DataModelHolds)

\* the edges of the half-edges of face f's loop, in loop order
LoopEdges(f) ==
    [k \in 1 .. At(faces, f).valence |->
        LET h == NextN(At(faces, f).edge, k - 1)
        IN  IF h < Len(halfEdges) THEN At(halfEdges, h).edge ELSE INVALID_INDEX]

\* the faces whose loop contains vertex v
FacesAround(v) == {f \in Indices(faces) : v \in Entries(LoopVertices(f))}

\* seq lists exactly the elements of set, each once
ListsOnce(seq, set) == Entries(seq) = set /\ Len(seq) = Cardinality(set)

\* C33: after a cache build, face_edges(f)[i] is the edge of the i-th half-edge
\* of f's loop and joins face_vertices(f)[i] and face_vertices(f)[i+1 mod n];
\* vertex_faces(v) lists exactly the faces whose loop contains v, each once;
\* edge_faces(e) lists exactly the faces adjacent to e, one for a boundary
\* edge and two for an interior edge.
C33_AdjacencyLists ==
    FreshlyBuilt =>
        /\ \A f \in Indices(faces) :
                /\ getFaceEdges(f) = LoopEdges(f)
                /\ \A i \in 1 .. At(faces, f).valence :
                        LET fv == getFaceVertices(f)
                        IN  /\ Len(fv) = At(faces, f).valence
                            /\ {fv[i], fv[(i % Len(fv)) + 1]} \in EdgeEnds(getFaceEdges(f)[i])
        /\ \A v \in Indices(vertices) : ListsOnce(getVertexFaces(v), FacesAround(v))
        /\ \A e \in Indices(edges) :
                /\ ListsOnce(getEdgeFaces(e), AdjacentFaces(e))
                /\ Len(getEdgeFaces(e)) = (IF isBoundaryEdge(e) THEN 1 ELSE 2)

\* C34: after a cache build, for every edge e referenced by at least one
\* half-edge, edge_vertices(e) = (u, w) with u < w and {u, w} =
\* {from_vertex(h), to[h]} for every half-edge h with edge[h] = e.
C34_EdgeVerticesCanonical ==
    FreshlyBuilt =>
    \A e \in Indices(edges) :
        EdgeEnds(e) # {} =>
            LET uw == getEdgeVertices(e)
            IN  /\ uw[1] < uw[2]
                /\ EdgeEnds(e) = {{uw[1], uw[2]}}

\* C35: a build() on a mesh that has not changed since the last build()
\* leaves every array, flag and total of the cache as the last build left it.
C35_BuildIdempotent ==
    [][(/\ FreshlyBuilt
        /\ result'.op = "build"
        /\ oob' = {} /\ ~crashed'
        /\ mesh' = mesh)
        => cache' = cache]_vars

\* C35 witness: a cache built on two faces that share an edge, with interior
\* and boundary edges and non-zero valences, on which build() can run again
C35_Witness ==
    /\ FreshlyBuilt
    /\ cache = BuiltCache
    /\ Len(faces) >= 2
    /\ cache.numBoundaryEdges_ > 0
    /\ \E e \in Indices(edges) : ~isBoundaryEdge(e)
    /\ \E v \in Indices(vertices) : getValence(v) >= 3

\* C36: addFace with fewer than three vertices returns INVALID_INDEX with code
\* FACE_TOO_FEW_VERTICES, addFace with three or more vertices of which one
\* is repeated returns INVALID_INDEX with code DUPLICATE_VERTEX_IN_FACE, and in
\* both cases no array and no map entry changes.
C36_ShapeChecksReject ==
    [][(/\ calls' = calls + 1
        /\ Len(args') < 3 \/ Cardinality(Entries(args')) < Len(args'))
        => (/\ oob' = {} /\ ~crashed'
            /\ result'.op = "addFace"
            /\ result'.ret = INVALID_INDEX
            /\ result'.codes = IF Len(args') < 3 THEN {"FACE_TOO_FEW_VERTICES"}
                                ELSE {"DUPLICATE_VERTEX_IN_FACE"}
            /\ UNCHANGED <<mesh, cache>>)]_vars

\* C36 witness: a mesh with a face on which a call whose first and last vertex
\* are the same was rejected
C36_Witness ==
    /\ Len(faces) >= 1
    /\ Len(args) = 3
    /\ args[1] = args[3]
    /\ args[1] # args[2]
    /\ result.op = "addFace"
    /\ result.ret = INVALID_INDEX
    /\ result.codes = {"DUPLICATE_VERTEX_IN_FACE"}

\* a clear() that leaves the directed-edge map as it is
clearMeshKeepsMap ==
    /\ Defined
    /\ vertices' = << >>
    /\ halfEdges' = << >>
    /\ edges' = << >>
    /\ faces' = << >>
    /\ vertexAttributes' = 0
    /\ faceAttributes' = 0
    /\ result' = [op |-> "clear", ret |-> INVALID_INDEX, codes |-> {}, ok |-> TRUE]
    /\ UNCHANGED <<halfEdgeMap, args, oob, crashed, calls, everRejected, cache>>
    /\ UNCHANGED others

\* Mesh::clear, mesh.cpp 404-414 (clear(t) above is Context::clear): the four
\* arrays, the two attribute arrays and the map are emptied; the cache is not
\* touched
clearMesh ==
    /\ Defined
    /\ vertices' = << >>
    /\ halfEdges' = << >>
    /\ edges' = << >>
    /\ faces' = << >>
    /\ vertexAttributes' = 0
    /\ faceAttributes' = 0
    /\ halfEdgeMap' = << >>
    /\ result' = [op |-> "clear", ret |-> INVALID_INDEX, codes |-> {}, ok |-> TRUE]
    /\ UNCHANGED <<args, oob, crashed, calls, everRejected, cache>>
    /\ UNCHANGED others

NextClear == addVertex \/ AddFaceCache \/ clearMesh

SpecClear == Init /\ [][NextClear]_vars

\* the arrays and the map of a mesh that was just constructed
FreshMesh == << << >>, << >>, << >>, << >>, 0, 0, << >> >>

\* C37: after clear() all counts are 0 and the map is empty, that is, the
\* arrays and the map are those of a fresh mesh, whatever was added or
\* rejected before; the calls that follow therefore start from what a fresh
\* mesh starts from, and the first addVertex after it returns index 0.
C37_ClearGivesFreshMesh ==
    /\ [](result.op = "clear" => mesh = FreshMesh)
    /\ [][(result.op = "clear" /\ result'.op = "addVertex") => result'.ret = 0]_vars
    /\ [][(Len(faces) = 0 /\ result'.op = "addFace" /\ result'.ret # INVALID_INDEX)
            => result'.ret = 0]_vars

\* C37 witness: clear() after a rejected addFace that had left edge records and
\* map entries behind
C37_Witness ==
    /\ result.op = "clear"
    /\ everRejected
    /\ calls >= 3
    /\ Len(edges) = 0

\* mesh.cpp 27 in a build with SUBDIV_ENABLE_VALIDATION (config.hpp 69-76):
\* returnError hands the code to Context::addError (context.cpp 69-78), which
\* appends it under the mutex unless the mode is DISABLED
reportError(code) == sink' = addErrorLocked(sink, [severity |-> "ERROR", code |-> code])

\* Mesh::addFace, mesh.cpp 20-140, called by thread t in a build with
\* SUBDIV_ENABLE_VALIDATION, with vertex lists of existing vertices.  While no
\* thread holds the sink's mutex the call is addFace(verts) with the code of a
\* rejected call reported to the sink.  While a thread is stuck in stopTimer
\* with the mutex (context.cpp 195-205), the lock_guard of addError (context.cpp
\* 73) waits forever: the call does not return; this is followed for the lists
\* that fail the checks of mesh.cpp 32-49.
addFaceReporting(t) ==
    /\ ~crashed
    /\ threads[t].pc = "idle"
    /\ calls < MaxCallsReport
    /\ \E verts \in FaceInputs :
        /\ \A i \in 1..Len(verts) : verts[i] < Len(vertices)
        /\ calls' = calls + 1
        /\ args' = verts
        /\ UNCHANGED <<vertexAttributes, cache, renderMesh>>
        /\ \/ /\ Defined
              /\ sink.m_mutex = 0
              /\ UNCHANGED threads
              /\ IF Len(verts) < 3
                 THEN /\ returnError("FACE_TOO_FEW_VERTICES")
                      /\ reportError("FACE_TOO_FEW_VERTICES")
                      /\ UNCHANGED <<vertices, halfEdges, edges, faces, faceAttributes,
                                     halfEdgeMap, oob, crashed>>
                 ELSE IF HasDuplicateVertex(verts)
                 THEN /\ returnError("DUPLICATE_VERTEX_IN_FACE")
                      /\ reportError("DUPLICATE_VERTEX_IN_FACE")
                      /\ UNCHANGED <<vertices, halfEdges, edges, faces, faceAttributes,
                                     halfEdgeMap, oob, crashed>>
                 ELSE LET faceIdx == Len(faces)
                          st0 == [vertices |-> vertices, halfEdges |-> halfEdges,
                                  edges |-> edges, halfEdgeMap |-> halfEdgeMap,
                                  faceHalfEdges |-> << >>, oob |-> {}, status |-> "run"]
                      IN  \E st \in addFaceLoop(verts, faceIdx, 1, st0) :
                              /\ addFaceEnd(verts, faceIdx, st)
                              /\ IF st.status = "rollback"
                                 THEN reportError("NON_MANIFOLD_EDGE")
                                 ELSE UNCHANGED sink
           \/ /\ sink.m_mutex # 0
              /\ Len(verts) < 3 \/ HasDuplicateVertex(verts)
              /\ threads' = [threads EXCEPT ![t] = [pc |-> "blocked", op |-> "addFace"]]
              /\ UNCHANGED <<vertices, halfEdges, edges, faces, faceAttributes, halfEdgeMap,
                             oob, crashed, result, everRejected, sink>>

\* The mesh with a sink that is switched on: threads that add vertices and
\* faces, set the sink's mode and start and stop timers.
NextReport ==
    \/ addVertex
    \/ \E t \in Threads :
            \/ enable(t) \/ startTimer(t) \/ stopTimer(t) \/ addFaceReporting(t)

SpecReport == Init /\ [][NextReport]_vars

\* C38: the sink does not influence its callers: an addFace call made with
\* the sink in any mode, and with any use of the sink by other threads,
\* returns, and returns what it returns with the sink DISABLED: INVALID_INDEX
\* with the mesh and the cache unchanged for a list that fails the shape
\* checks, otherwise the new face's index or INVALID_INDEX as the loop over
\* the list decides from the mesh alone.
C38_SinkDoesNotInfluenceCallers ==
    [][(calls' = calls + 1 /\ ~crashed' /\ oob' \subseteq {"m_mutex relock"})
        => (/\ \A t \in Threads : threads'[t].pc # "blocked"
            /\ result'.op = "addFace"
            /\ IF Len(args') < 3 \/ Cardinality(Entries(args')) < Len(args')
               THEN result'.ret = INVALID_INDEX /\ UNCHANGED <<mesh, cache>>
               ELSE \E st \in LoopOutcomes(args') :
                        result'.ret = IF st.status = "run" THEN Len(faces)
                                      ELSE INVALID_INDEX)]_vars

\* C39: in every state the calls can reach, rejected calls included, for every
\* vertex v: outgoing[v] is INVALID_INDEX exactly when v is on the loop of no
\* face, and otherwise outgoing[v] is a half-edge of the array with
\* from_vertex(outgoing[v]) = v.
C39_OutgoingOfVertex ==
    Defined =>
    \A v \in Indices(vertices) :
        LET out == At(vertices, v).outgoing
        IN  IF FacesAround(v) = {}
            THEN out = INVALID_INDEX
            ELSE /\ out < Len(halfEdges)
                 /\ getFromVertex(out) = v

\* mesh.cpp 216-232: the do-while of Mesh::isBoundaryVertex from half-edge
\* current on.  "oob" when halfEdges_ is indexed past its end, "loop" when the
\* walk has taken more steps than there are half-edges without meeting start
\* again (it then never does).
RECURSIVE boundaryWalk(_, _, _)
boundaryWalk(start, current, steps) ==
    IF current >= Len(halfEdges) THEN "oob"
    ELSE LET twin == At(halfEdges, current).twin
         IN  IF twin = INVALID_INDEX THEN "true"
             ELSE IF twin >= Len(halfEdges) THEN "oob"
             ELSE LET nxt == At(halfEdges, twin).next
                  IN  IF nxt = INVALID_INDEX THEN "true"
                      ELSE IF nxt = start THEN "false"
                      ELSE IF steps >= Len(halfEdges) THEN "loop"
                      ELSE boundaryWalk(start, nxt, steps + 1)

\* Mesh::isBoundaryVertex, mesh.cpp 204-235 (isBoundaryVertex above is the
\* cache's): an isolated vertex counts as boundary
meshIsBoundaryVertex(vIdx) ==
    IF At(vertices, vIdx).outgoing = INVALID_INDEX THEN "true"
    ELSE boundaryWalk(At(vertices, vIdx).outgoing, At(vertices, vIdx).outgoing, 0)

\* C40: on every mesh built from accepted addFace calls, for every vertex,
\* isolated vertices included, the traversal of Mesh::isBoundaryVertex
\* returns what the freshly built cache's boundary flag of the vertex says.
C40_BoundaryVertexAgrees ==
    (FreshlyBuilt /\ ~everRejected) =>
    \A v \in Indices(vertices) :
        meshIsBoundaryVertex(v) = (IF isBoundaryVertex(v) THEN "true" ELSE "false")
====
